---- MODULE Spec2Model ----
(***************************************************************************)
(* A model of shinto.jsonschema.JsonSchemaRegistry: the identifier         *)
(* normaliser, the schema store with its path mapping, the reference       *)
(* walker, the validator cache and the two validate entry points.          *)
(*                                                                         *)
(* Strings are sequences of one-character strings, so that the normaliser  *)
(* and the reference splitter are computed character by character.         *)
(***************************************************************************)
EXTENDS Integers, Sequences, FiniteSets, TLC

VARIABLES
    registry,   \* self._registry: canonical identifier -> stored document
    mappings,   \* self._schema_mappings: insertion-ordered <<path, id>> pairs
    cache,      \* self._validator_cache: key -> validator (schema, bound registry)
    call,       \* the most recent call of the public interface: its name and arguments
    ret,        \* what that call returned or raised
    hist,       \* the registry as it was before that call, and the run of calls it ends
    nraw,       \* normaliser run: the input string
    nonce,      \* normaliser run: _clean_schema_id(nraw)
    ntwice,     \* normaliser run: _clean_schema_id(nonce)
    npc,        \* normaliser run: how many times the normaliser has been applied
    got,        \* the value the most recent lookup call returned
    aud,        \* check_unresolvable_refs: its traversal and what it has reported
    rt,         \* retry: the arguments, the wrapper's locals and the calls and sleeps made
    thr         \* reader threads: each thread's call, position, locals and result

vars == <<registry, mappings, cache, call, ret, hist, nraw, nonce, ntwice, npc,
          got, aud, rt, thr>>

regvars == <<registry, mappings, cache, call, ret, hist>>
normvars == <<nraw, nonce, ntwice, npc>>

\* What a call of the registry's sequential interface leaves alone.
restvars == <<normvars, got, aud, rt, thr>>

----------------------------------------------------------------------------
(* Strings *)

\* Longest input string enumerated for the normaliser run.
MaxLen == 5

\* Characters the normaliser run draws its inputs from: the path separator,
\* the characters of ".json", an upper-case letter and the delimiter.
NormChars == {"/", ".", "j", "s", "o", "n", "_", "A"}

SeqsUpTo(S, n) == UNION {[1..k -> S] : k \in 0..n}

StartsWith(s, pre) ==
    /\ Len(s) >= Len(pre)
    /\ SubSeq(s, 1, Len(pre)) = pre

Drop(s, k) == SubSeq(s, k + 1, Len(s))

\* str.replace("/", "_")
ReplaceSlash(s) == [i \in 1..Len(s) |-> IF s[i] = "/" THEN "_" ELSE s[i]]

DotJson == <<".", "j", "s", "o", "n">>

\* str.replace(".json", ""): one left-to-right pass over non-overlapping matches.
RECURSIVE RemoveDotJson(_)
RemoveDotJson(s) ==
    IF s = <<>> THEN <<>>
    ELSE IF StartsWith(s, DotJson) THEN RemoveDotJson(Drop(s, Len(DotJson)))
    ELSE <<s[1]>> \o RemoveDotJson(Tail(s))

UpperChars == <<"A", "B", "C", "D", "E", "F", "G", "H", "I", "J", "K", "L", "M",
                "N", "O", "P", "Q", "R", "S", "T", "U", "V", "W", "X", "Y", "Z">>
LowerChars == <<"a", "b", "c", "d", "e", "f", "g", "h", "i", "j", "k", "l", "m",
                "n", "o", "p", "q", "r", "s", "t", "u", "v", "w", "x", "y", "z">>
Digits == {"0", "1", "2", "3", "4", "5", "6", "7", "8", "9"}

\* Upper-case letter -> its lower-case letter.
LowerOf ==
    [c \in {UpperChars[i] : i \in 1..Len(UpperChars)} |->
        LowerChars[CHOOSE i \in 1..Len(UpperChars) : UpperChars[i] = c]]

LowerChar(c) == IF c \in DOMAIN LowerOf THEN LowerOf[c] ELSE c

\* str.lower()
Lower(s) == [i \in 1..Len(s) |-> LowerChar(s[i])]

\* The character class [a-z0-9_].
IdChars == {LowerChars[i] : i \in 1..Len(LowerChars)} \cup Digits \cup {"_"}

IsIdChar(c) == c \in IdChars

\* re.sub(r"[^a-z0-9_]", "", s)
KeepIdChars(s) == SelectSeq(s, IsIdChar)

\* re.sub(r"_+", "_", s)
RECURSIVE CollapseUnderscores(_)
CollapseUnderscores(s) ==
    IF Len(s) < 2 THEN s
    ELSE IF s[1] = "_" /\ s[2] = "_" THEN CollapseUnderscores(Tail(s))
    ELSE <<s[1]>> \o CollapseUnderscores(Tail(s))

RECURSIVE LStripUnderscores(_)
LStripUnderscores(s) ==
    IF s # <<>> /\ s[1] = "_" THEN LStripUnderscores(Tail(s)) ELSE s

RECURSIVE RStripUnderscores(_)
RStripUnderscores(s) ==
    IF s # <<>> /\ s[Len(s)] = "_"
    THEN RStripUnderscores(SubSeq(s, 1, Len(s) - 1))
    ELSE s

\* str.strip("_")
StripUnderscores(s) == RStripUnderscores(LStripUnderscores(s))

\* A normaliser that collapses the delimiter runs before it removes the
\* characters outside [a-z0-9_], so that a removal can join two delimiters.
CleanSchemaIdCollapseFirst(s) ==
    StripUnderscores(KeepIdChars(CollapseUnderscores(
        Lower(RemoveDotJson(ReplaceSlash(s))))))

\* JsonSchemaRegistry._clean_schema_id
CleanSchemaId(s) ==
    StripUnderscores(CollapseUnderscores(KeepIdChars(
        Lower(RemoveDotJson(ReplaceSlash(s))))))

----------------------------------------------------------------------------
(* The normaliser run: _clean_schema_id applied to its own output. *)

NormInit ==
    /\ nraw \in SeqsUpTo(NormChars, MaxLen)
    /\ nonce = <<>>
    /\ ntwice = <<>>
    /\ npc = 0

NormOnce ==
    /\ npc = 0
    /\ nonce' = CleanSchemaId(nraw)
    /\ npc' = 1
    /\ UNCHANGED <<nraw, ntwice>>

NormTwice ==
    /\ npc = 1
    /\ ntwice' = CleanSchemaId(nonce)
    /\ npc' = 2
    /\ UNCHANGED <<nraw, nonce>>

----------------------------------------------------------------------------
(* Paths and the files the registry reads *)

\* The process's working directory, which Path.resolve() puts before a
\* relative path.
Cwd == <<"/", "w">>

\* str(Path(p).resolve()) for a path without "." or ".." parts or symlinks.
PathResolve(p) ==
    IF p = <<>> THEN Cwd
    ELSE IF p[1] = "/" THEN p
    ELSE Cwd \o <<"/">> \o p

FragName == <<"#", "/", "p", "r", "o", "p", "e", "r", "t", "i", "e", "s",
              "/", "n", "a", "m", "e">>

\* A schema document
\*   {"$id": id,
\*    "properties": {"name": {"type": ty, "enum": ["ok"]},
\*                   "tags": {"items": {"$ref": refs[1]}}},
\*    "definitions": {"d": {"anyOf": [{"$ref": refs[2]}]}},
\*    "examples": [[{"$ref": deep[1]}]]}
\* where "$id" is present when hasId, "enum" when enum, "tags" when refs has
\* a first element, "definitions" when it has a second and "examples" when
\* deep has an element. refs holds the "$ref" values that lie in a mapping
\* reached through mappings and through sequences of mappings; deep holds
\* the one that lies in a sequence that is itself an item of a sequence.
MkDoc(hasId, id, ty, enum, refs) ==
    [hasId |-> hasId, id |-> id, ty |-> ty, enum |-> enum, refs |-> refs,
     deep |-> <<>>]

PathA == <<"/", "w", "/", "a", ".", "j", "s", "o", "n">>
PathA2 == <<"/", "w", "/", "a", "2", ".", "j", "s", "o", "n">>
PathP == <<"/", "w", "/", "p", ".", "j", "s", "o", "n">>
PathX == <<"/", "w", "/", "a">>
PathDotJson == <<"/", ".", "j", "s", "o", "n">>

RelA == <<"a", ".", "j", "s", "o", "n">>
RelP == <<"p", ".", "j", "s", "o", "n">>
RelX == <<"a">>
RelMissing == <<"m", ".", "j", "s", "o", "n">>

\* The schema files on disk: absolute path -> parsed document.
Files ==
    (PathA :> MkDoc(TRUE, <<"A">>, "string", TRUE, <<>>)) @@
    (PathA2 :> MkDoc(TRUE, <<"a", ".", "j", "s", "o", "n">>, "integer", FALSE, <<>>)) @@
    (PathP :> MkDoc(TRUE, <<"P">>, "string", FALSE,
                    <<RelA \o FragName, <<"q">> >>)) @@
    (PathX :> MkDoc(FALSE, <<>>, "integer", FALSE, <<FragName>>)) @@
    (PathDotJson :> MkDoc(FALSE, <<>>, "string", FALSE, <<>>))

\* In-memory documents handed to register_schema.
DocQ == [MkDoc(TRUE, <<"q">>, "string", FALSE, << <<"A">> >>)
            EXCEPT !.deep = <<RelA>>]
DocP == MkDoc(TRUE, <<"p">>, "string", FALSE, << <<"a">> \o FragName, <<"q">> >>)
DocNoId == MkDoc(FALSE, <<>>, "string", FALSE, <<>>)
DocW == MkDoc(TRUE, <<"W", "_", "a">>, "string", FALSE, <<>>)
DocDash == MkDoc(TRUE, <<"-">>, "string", FALSE, <<>>)
NoDoc == MkDoc(FALSE, <<>>, "", FALSE, <<>>)

----------------------------------------------------------------------------
(* The path mapping: a dict, which keeps its keys in insertion order *)

MapHas(m, p) == \E i \in 1..Len(m) : m[i].path = p

MapGet(m, p) == m[CHOOSE i \in 1..Len(m) : m[i].path = p].id

\* self._schema_mappings[p] = id
MapSet(m, p, id) ==
    IF MapHas(m, p)
    THEN [i \in 1..Len(m) |-> IF m[i].path = p THEN [path |-> p, id |-> id] ELSE m[i]]
    ELSE Append(m, [path |-> p, id |-> id])

\* JsonSchemaRegistry.schema_registered
SchemaRegistered(m, p) == MapHas(m, PathResolve(p))

\* JsonSchemaRegistry.schema_id_in_registry
SchemaIdInRegistry(reg, sid) == CleanSchemaId(sid) \in DOMAIN reg

HasFilepathFor(m, sid) == \E i \in 1..Len(m) : m[i].id = CleanSchemaId(sid)

\* JsonSchemaRegistry.next_filepath_for_schema_id, when it is not None
NextFilepathForSchemaId(m, sid) ==
    LET hits == {i \in 1..Len(m) : m[i].id = CleanSchemaId(sid)}
    IN m[CHOOSE i \in hits : \A j \in hits : i <= j].path

----------------------------------------------------------------------------
(* The reference walker *)

HasHash(s) == \E i \in 1..Len(s) : s[i] = "#"

FirstHash(s) == CHOOSE i \in 1..Len(s) : s[i] = "#" /\ \A j \in 1..(i - 1) : s[j] # "#"

\* ref.split("#", 1)[0]
RefPrefix(ref) == IF HasHash(ref) THEN SubSeq(ref, 1, FirstHash(ref) - 1) ELSE ref

\* "#" + ref.split("#", 1)[1], or "" when the reference has no "#"
RefFragment(ref) == IF HasHash(ref) THEN SubSeq(ref, FirstHash(ref), Len(ref)) ELSE <<>>

\* value.startswith("#")
IsLocalRef(ref) == ref # <<>> /\ ref[1] = "#"

\* A lookup of the prefix that tries it as an identifier without
\* normalising it.
RefFoundRawIdentifier(reg, m, ref) ==
    SchemaRegistered(m, RefPrefix(ref)) \/ RefPrefix(ref) \in DOMAIN reg

\* found_ref in _resolve_ref
RefFound(reg, m, ref) ==
    SchemaRegistered(m, RefPrefix(ref)) \/ SchemaIdInRegistry(reg, RefPrefix(ref))

\* The schema_id _resolve_ref finds: the path mapping is tried first.
RefSchemaId(reg, m, ref) ==
    IF SchemaRegistered(m, RefPrefix(ref))
    THEN MapGet(m, PathResolve(RefPrefix(ref)))
    ELSE CleanSchemaId(RefPrefix(ref))

RefHasFilepath(reg, m, ref) ==
    SchemaRegistered(m, RefPrefix(ref)) \/ HasFilepathFor(m, RefPrefix(ref))

RefFilepath(reg, m, ref) ==
    IF SchemaRegistered(m, RefPrefix(ref))
    THEN PathResolve(RefPrefix(ref))
    ELSE NextFilepathForSchemaId(m, RefPrefix(ref))

\* A _resolve_ref that falls back to the identifier when asked for the path
\* of a schema that has none.
ResolveRefFallBackToId(reg, m, ref, convert_to) ==
    IF RefFound(reg, m, ref) /\ convert_to = "id"
    THEN RefSchemaId(reg, m, ref) \o RefFragment(ref)
    ELSE IF RefFound(reg, m, ref) /\ convert_to = "filepath"
    THEN IF RefHasFilepath(reg, m, ref)
         THEN RefFilepath(reg, m, ref) \o RefFragment(ref)
         ELSE RefSchemaId(reg, m, ref) \o RefFragment(ref)
    ELSE ref

\* A _resolve_ref that rewrites the prefix and loses the fragment.
ResolveRefDropFragment(reg, m, ref, convert_to) ==
    IF RefFound(reg, m, ref) /\ convert_to = "id"
    THEN RefSchemaId(reg, m, ref)
    ELSE IF RefFound(reg, m, ref) /\ convert_to = "filepath" /\ RefHasFilepath(reg, m, ref)
    THEN RefFilepath(reg, m, ref)
    ELSE ref

\* JsonSchemaRegistry._resolve_ref. convert_to is "id", "filepath" or "True":
\* _register_schema passes the boolean True, which equals neither string.
ResolveRef(reg, m, ref, convert_to) ==
    IF RefFound(reg, m, ref) /\ convert_to = "id"
    THEN RefSchemaId(reg, m, ref) \o RefFragment(ref)
    ELSE IF RefFound(reg, m, ref) /\ convert_to = "filepath" /\ RefHasFilepath(reg, m, ref)
    THEN RefFilepath(reg, m, ref) \o RefFragment(ref)
    ELSE ref

\* JsonSchemaRegistry._resolve_schema_refs: a mapping's mapping values and
\* the mapping items of its sequence values are walked, so every "$ref" of
\* refs is reached and a local one is copied; an item that is not a mapping
\* is copied as it is, so the sequence inside "examples" and with it the
\* "$ref" of deep is never visited.
ResolveSchemaRefs(reg, m, doc, convert_to) ==
    [doc EXCEPT !.refs =
        [i \in 1..Len(doc.refs) |->
            IF IsLocalRef(doc.refs[i]) THEN doc.refs[i]
            ELSE ResolveRef(reg, m, doc.refs[i], convert_to)]]

----------------------------------------------------------------------------
(* Calls, outcomes and the history kept to state the claims *)

NoData == [name |-> "", tags |-> <<>>]
NoErr == [path |-> <<>>, kw |-> "", val |-> "", arg |-> ""]

MkCall(op, path, doc, form, data, fps, ids) ==
    [op |-> op, path |-> path, doc |-> doc, form |-> form,
     data |-> data, fps |-> fps, ids |-> ids]

NoCall == MkCall("none", <<>>, NoDoc, "", NoData, <<>>, <<>>)

\* kind: "ok" or the exception raised; id: the identifier register_schema
\* returned; at: the position in the identifier list whose check raised;
\* err: the validation failure raised; groups: the list returned by
\* validate_json_against_schemas_complete.
MkRet(kind, id, at, err, groups) ==
    [kind |-> kind, id |-> id, at |-> at, err |-> err, groups |-> groups]

RetOk == MkRet("ok", <<>>, 0, NoErr, <<>>)
RetRaise(kind) == MkRet(kind, <<>>, 0, NoErr, <<>>)

\* Longest run of consecutive update_schema_refs_to calls.
MaxChain == 2

\* reg, map, cached: the store, the path mapping and the keys of the validator
\* cache before the call. again, prevId: the call before was the same
\* register_schema call and returned prevId. chain: the forms of the
\* consecutive update_schema_refs_to calls this call ends; origin: the store
\* before the first of them.
MkHist(reg, map, c, again, prevId, chain, origin) ==
    [reg |-> reg, map |-> map, cached |-> DOMAIN c, again |-> again,
     prevId |-> prevId, chain |-> chain, origin |-> origin]

\* The history entry of a call that is not a repeat and not an update.
PlainHist == MkHist(registry, mappings, cache, FALSE, <<>>, <<>>, <<>>)

----------------------------------------------------------------------------
(* Registration *)

\* A _register_schema that takes any document under a key already in the
\* store for the stored one, and so never reports a conflict.
RegisterSchemaInnerNoConflict(reg, m, c, doc) ==
    IF ~doc.hasId \/ doc.id = <<>>
    THEN [kind |-> "ValueError", id |-> <<>>, registry |-> reg, cache |-> c]
    ELSE LET sid == CleanSchemaId(doc.id)
         IN IF sid \in DOMAIN reg
            THEN [kind |-> "ok", id |-> sid, registry |-> reg, cache |-> c]
            ELSE [kind |-> "ok", id |-> sid,
                  registry |-> (sid :> doc) @@ reg, cache |-> <<>>]

\* A _register_schema that reports a conflict for every key already in the
\* store, whatever the document.
RegisterSchemaInnerAlwaysConflict(reg, m, c, doc) ==
    IF ~doc.hasId \/ doc.id = <<>>
    THEN [kind |-> "ValueError", id |-> <<>>, registry |-> reg, cache |-> c]
    ELSE LET sid == CleanSchemaId(doc.id)
         IN IF sid \in DOMAIN reg
            THEN [kind |-> "KeyError", id |-> <<>>, registry |-> reg, cache |-> c]
            ELSE [kind |-> "ok", id |-> sid,
                  registry |-> (sid :> doc) @@ reg, cache |-> <<>>]

\* A _register_schema that keeps the validator cache when it adds a document.
RegisterSchemaInnerKeepCache(reg, m, c, doc) ==
    IF ~doc.hasId \/ doc.id = <<>>
    THEN [kind |-> "ValueError", id |-> <<>>, registry |-> reg, cache |-> c]
    ELSE LET sid == CleanSchemaId(doc.id)
         IN IF sid \in DOMAIN reg
            THEN IF /\ reg[sid] # doc
                    /\ ResolveSchemaRefs(reg, m, reg[sid], "True")
                            # ResolveSchemaRefs(reg, m, doc, "True")
                 THEN [kind |-> "KeyError", id |-> <<>>, registry |-> reg, cache |-> c]
                 ELSE [kind |-> "ok", id |-> sid, registry |-> reg, cache |-> c]
            ELSE [kind |-> "ok", id |-> sid,
                  registry |-> (sid :> doc) @@ reg, cache |-> c]

\* A _register_schema that files a document under its declared identifier
\* as written.
RegisterSchemaInnerRawKey(reg, m, c, doc) ==
    IF ~doc.hasId \/ doc.id = <<>>
    THEN [kind |-> "ValueError", id |-> <<>>, registry |-> reg, cache |-> c]
    ELSE LET sid == doc.id
         IN IF sid \in DOMAIN reg
            THEN IF /\ reg[sid] # doc
                    /\ ResolveSchemaRefs(reg, m, reg[sid], "True")
                            # ResolveSchemaRefs(reg, m, doc, "True")
                 THEN [kind |-> "KeyError", id |-> <<>>, registry |-> reg, cache |-> c]
                 ELSE [kind |-> "ok", id |-> sid, registry |-> reg, cache |-> c]
            ELSE [kind |-> "ok", id |-> sid,
                  registry |-> (sid :> doc) @@ reg, cache |-> <<>>]

\* A _register_schema that brings the references of a new document to
\* identifier form, against the store of that moment, before it stores it.
RegisterSchemaInnerResolveFirst(reg, m, c, doc) ==
    IF ~doc.hasId \/ doc.id = <<>>
    THEN [kind |-> "ValueError", id |-> <<>>, registry |-> reg, cache |-> c]
    ELSE LET sid == CleanSchemaId(doc.id)
         IN IF sid \in DOMAIN reg
            THEN IF /\ reg[sid] # doc
                    /\ ResolveSchemaRefs(reg, m, reg[sid], "True")
                            # ResolveSchemaRefs(reg, m, doc, "True")
                 THEN [kind |-> "KeyError", id |-> <<>>, registry |-> reg, cache |-> c]
                 ELSE [kind |-> "ok", id |-> sid, registry |-> reg, cache |-> c]
            ELSE [kind |-> "ok", id |-> sid,
                  registry |-> (sid :> ResolveSchemaRefs(reg, m, doc, "id")) @@ reg,
                  cache |-> <<>>]

\* JsonSchemaRegistry._register_schema: the exception raised or the
\* identifier returned, and the store and the validator cache it leaves.
RegisterSchemaInner(reg, m, c, doc) ==
    IF ~doc.hasId \/ doc.id = <<>>
    THEN [kind |-> "ValueError", id |-> <<>>, registry |-> reg, cache |-> c]
    ELSE LET sid == CleanSchemaId(doc.id)
         IN IF sid \in DOMAIN reg
            THEN IF /\ reg[sid] # doc
                    /\ ResolveSchemaRefs(reg, m, reg[sid], "True")
                            # ResolveSchemaRefs(reg, m, doc, "True")
                 THEN [kind |-> "KeyError", id |-> <<>>, registry |-> reg, cache |-> c]
                 ELSE [kind |-> "ok", id |-> sid, registry |-> reg, cache |-> c]
            ELSE [kind |-> "ok", id |-> sid,
                  registry |-> (sid :> doc) @@ reg, cache |-> <<>>]

\* A register_schema that reads "$id" with no default, and so hands a file
\* that declares none to _register_schema without one.
LoadedDocNoDefault(fp) ==
    LET schema == Files[fp]
    IN [schema EXCEPT !.id = CleanSchemaId(schema.id)]

\* The document register_schema hands to _register_schema for a path: the
\* file's document with "$id" set to the normalised declared identifier, or
\* to the normalised path when the file declares none.
LoadedDoc(fp) ==
    LET schema == Files[fp]
    IN [schema EXCEPT !.hasId = TRUE,
                      !.id = CleanSchemaId(IF schema.hasId THEN schema.id ELSE fp)]

\* The previous call was this same register_schema call and returned an identifier.
SameRegisterAgain(c) ==
    /\ call.op = c.op
    /\ call.path = c.path
    /\ call.doc = c.doc
    /\ ret.kind = "ok"

RegisterHist(c) ==
    MkHist(registry, mappings, cache, SameRegisterAgain(c),
           IF SameRegisterAgain(c) THEN ret.id ELSE <<>>, <<>>, <<>>)

\* A register_schema that enters the path in the mapping before it hands
\* the document to _register_schema.
RegisterPathMapFirst(p) ==
    LET fp == PathResolve(p)
        c == MkCall("register_path", p, NoDoc, "", NoData, <<>>, <<>>)
    IN /\ call' = c
       /\ hist' = RegisterHist(c)
       /\ IF fp \notin DOMAIN Files
          THEN /\ ret' = RetRaise("FileNotFoundError")
               /\ UNCHANGED <<registry, mappings, cache>>
          ELSE LET r == RegisterSchemaInner(registry, mappings, cache, LoadedDoc(fp))
               IN /\ registry' = r.registry
                  /\ cache' = r.cache
                  /\ mappings' = MapSet(mappings, fp, LoadedDoc(fp).id)
                  /\ ret' = MkRet(r.kind, r.id, 0, NoErr, <<>>)
       /\ UNCHANGED restvars

\* register_schema(schema: str)
RegisterPath(p) ==
    LET fp == PathResolve(p)
        c == MkCall("register_path", p, NoDoc, "", NoData, <<>>, <<>>)
    IN /\ call' = c
       /\ hist' = RegisterHist(c)
       /\ IF fp \notin DOMAIN Files
          THEN /\ ret' = RetRaise("FileNotFoundError")
               /\ UNCHANGED <<registry, mappings, cache>>
          ELSE LET r == RegisterSchemaInner(registry, mappings, cache, LoadedDoc(fp))
               IN /\ registry' = r.registry
                  /\ cache' = r.cache
                  /\ mappings' = IF r.kind = "ok" THEN MapSet(mappings, fp, r.id)
                                  ELSE mappings
                  /\ ret' = MkRet(r.kind, r.id, 0, NoErr, <<>>)
       /\ UNCHANGED restvars

\* register_schema(schema: dict)
RegisterDoc(doc) ==
    LET c == MkCall("register_doc", <<>>, doc, "", NoData, <<>>, <<>>)
        r == RegisterSchemaInner(registry, mappings, cache, doc)
    IN /\ call' = c
       /\ hist' = RegisterHist(c)
       /\ registry' = r.registry
       /\ cache' = r.cache
       /\ ret' = MkRet(r.kind, r.id, 0, NoErr, <<>>)
       /\ UNCHANGED <<mappings, restvars>>

\* The loop of register_directory over the files the glob yields, in the
\* order it yields them: it stops at the first register_schema that raises.
RECURSIVE RegisterAll(_, _, _, _)
RegisterAll(reg, m, c, order) ==
    IF order = <<>>
    THEN [kind |-> "ok", registry |-> reg, mappings |-> m, cache |-> c]
    ELSE LET r == RegisterSchemaInner(reg, m, c, LoadedDoc(order[1]))
         IN IF r.kind # "ok"
            THEN [kind |-> r.kind, registry |-> r.registry, mappings |-> m,
                  cache |-> r.cache]
            ELSE RegisterAll(r.registry, MapSet(m, order[1], r.id), r.cache,
                             Tail(order))

\* register_directory(directory, pattern): order is the sequence of resolved
\* paths Path(directory).resolve().glob(pattern) yields.
RegisterDirectory(order) ==
    LET r == RegisterAll(registry, mappings, cache, order)
    IN /\ call' = MkCall("register_directory", <<>>, NoDoc, "", NoData, order, <<>>)
       /\ hist' = PlainHist
       /\ registry' = r.registry
       /\ mappings' = r.mappings
       /\ cache' = r.cache
       /\ ret' = RetRaise(r.kind)
       /\ UNCHANGED restvars

----------------------------------------------------------------------------
(* Reference rewriting *)

\* The store update_schema_refs_to leaves: every document's references
\* resolved against the keys of the store and the path mapping, neither of
\* which the loop changes.
RewrittenStore(reg, m, convert_to) ==
    [k \in DOMAIN reg |-> ResolveSchemaRefs(reg, m, reg[k], convert_to)]

\* update_schema_refs_to(convert_to)
UpdateSchemaRefsTo(convert_to) ==
    /\ Len(hist.chain) < MaxChain
    /\ call' = MkCall("update", <<>>, NoDoc, convert_to, NoData, <<>>, <<>>)
    /\ ret' = RetOk
    /\ hist' = MkHist(registry, mappings, cache, FALSE, <<>>,
                      Append(hist.chain, convert_to),
                      IF hist.chain = <<>> THEN registry ELSE hist.origin)
    /\ cache' = <<>>
    /\ registry' = RewrittenStore(registry, mappings, convert_to)
    /\ UNCHANGED <<mappings, restvars>>

----------------------------------------------------------------------------
(* Validators: Draft7Validator(schema, registry=self._registry) *)

\* The JSON values of the data: the string "ok" and the integer 123.
Values == {"ok", "123"}

TypeOf(v) == IF v = "123" THEN "integer" ELSE "string"

\* A segment of error.path: a property name or an array index.
Prop(name) == [isIndex |-> FALSE, name |-> name, index |-> 0]
Index(n) == [isIndex |-> TRUE, name |-> "", index |-> n]

\* The subschema {"type": ty, "enum": ["ok"]} under properties.name.
NameSubschema(doc) == [ty |-> doc.ty, enum |-> doc.enum]

\* The failures of value v against a name subschema, "type" before "enum".
SubschemaErrors(sub, v, path) ==
    (IF TypeOf(v) # sub.ty
     THEN << [path |-> path, kw |-> "type", val |-> v, arg |-> sub.ty] >>
     ELSE <<>>)
    \o
    (IF sub.enum /\ v # "ok"
     THEN << [path |-> path, kw |-> "enum", val |-> v, arg |-> "ok"] >>
     ELSE <<>>)

\* The validator _get_validator builds: the stored document and the registry
\* object of that moment, which later with_resource calls do not change.
MkValidator(reg, sid) == [schema |-> reg[sid], registry |-> reg]

\* The documents of the validator's registry a reference prefix names: the
\* one stored under that key, or the one that declares that "$id".
ValidatorHits(v, ref) ==
    {k \in DOMAIN v.registry :
        \/ k = RefPrefix(ref)
        \/ v.registry[k].hasId /\ v.registry[k].id = RefPrefix(ref)}

ValidatorRefDoc(v, ref) ==
    IF IsLocalRef(ref) THEN v.schema
    ELSE v.registry[CHOOSE k \in ValidatorHits(v, ref) : TRUE]

WholeDocFragment(frag) == frag = <<>> \/ frag = <<"#">>

\* The validator can follow the reference: its document is in the
\* validator's registry and its JSON pointer leads somewhere.
ValidatorResolves(v, ref) ==
    /\ IsLocalRef(ref) \/ ValidatorHits(v, ref) # {}
    /\ WholeDocFragment(RefFragment(ref)) \/ RefFragment(ref) = FragName

\* The failures of one array item against {"$ref": ref}: a whole document
\* constrains objects only, the name subschema constrains any value.
ItemErrors(v, ref, item, path) ==
    IF RefFragment(ref) = FragName
    THEN SubschemaErrors(NameSubschema(ValidatorRefDoc(v, ref)), item, path)
    ELSE <<>>

RECURSIVE TagErrorsFrom(_, _, _, _)
TagErrorsFrom(v, ref, tags, i) ==
    IF i > Len(tags) THEN <<>>
    ELSE ItemErrors(v, ref, tags[i], <<Prop("tags"), Index(i - 1)>>)
         \o TagErrorsFrom(v, ref, tags, i + 1)

NameErrors(v, data) ==
    SubschemaErrors(NameSubschema(v.schema), data.name, <<Prop("name")>>)

\* The data has items under "tags" and the schema constrains them by a "$ref".
FollowsRef(v, data) == Len(v.schema.refs) >= 1 /\ data.tags # <<>>

TagErrors(v, data) ==
    IF FollowsRef(v, data) THEN TagErrorsFrom(v, v.schema.refs[1], data.tags, 1) ELSE <<>>

\* validator.validate(data): raises the first failure iter_errors yields, or
\* the reference error iter_errors meets before it.
RunValidate(v, data) ==
    IF NameErrors(v, data) # <<>>
    THEN [kind |-> "ValidationError", err |-> NameErrors(v, data)[1]]
    ELSE IF FollowsRef(v, data) /\ ~ValidatorResolves(v, v.schema.refs[1])
    THEN [kind |-> "RefResolutionError", err |-> NoErr]
    ELSE IF TagErrors(v, data) # <<>>
    THEN [kind |-> "ValidationError", err |-> TagErrors(v, data)[1]]
    ELSE [kind |-> "ok", err |-> NoErr]

\* list(validator.iter_errors(data))
RunIterErrors(v, data) ==
    IF FollowsRef(v, data) /\ ~ValidatorResolves(v, v.schema.refs[1])
    THEN [kind |-> "RefResolutionError", errors |-> <<>>]
    ELSE [kind |-> "ok", errors |-> NameErrors(v, data) \o TagErrors(v, data)]

\* JsonSchemaRegistry._get_validator, for a key of the store: the cache it leaves.
GetValidator(reg, c, sid) ==
    IF sid \in DOMAIN c THEN c ELSE (sid :> MkValidator(reg, sid)) @@ c

\* self._registry.contents(schema_id) in _get_validator raises NoSuchResource,
\* a KeyError, for a key the store does not hold.
GetValidatorRaises(reg, c, sid) == sid \notin DOMAIN c /\ sid \notin DOMAIN reg

----------------------------------------------------------------------------
(* The validate entry points *)

\* [sid for fp in schema_filepaths if (sid := self.get_schema_id(fp)) is not None]
RECURSIVE IdsOfFilepaths(_, _)
IdsOfFilepaths(m, fps) ==
    IF fps = <<>> THEN <<>>
    ELSE (IF SchemaRegistered(m, fps[1])
          THEN <<MapGet(m, PathResolve(fps[1]))>> ELSE <<>>)
         \o IdsOfFilepaths(m, Tail(fps))

\* schema_ids after schema_ids.extend(...)
EffectiveIds(m, fps, ids) == ids \o IdsOfFilepaths(m, fps)

RaiseAt(kind, i, err) == MkRet(kind, <<>>, i, err, <<>>)

\* A validate loop that obtains the validator of every identifier of the
\* list before it runs the first one.
RECURSIVE ValidateFromEager(_, _, _, _, _)
ValidateFromEager(reg, c, ids, data, i) ==
    IF i > Len(ids) THEN [cache |-> c, ret |-> RetOk]
    ELSE IF ~SchemaIdInRegistry(reg, ids[i])
    THEN [cache |-> c, ret |-> RaiseAt("KeyError", i, NoErr)]
    ELSE IF GetValidatorRaises(reg, c, ids[i])
    THEN [cache |-> c, ret |-> RaiseAt("NoSuchResource", i, NoErr)]
    ELSE LET c2 == GetValidator(reg, c, ids[i])
             out == RunValidate(c2[ids[i]], data)
             rest == ValidateFromEager(reg, c2, ids, data, i + 1)
         IN IF out.kind = "ok" THEN rest
            ELSE [cache |-> rest.cache, ret |-> RaiseAt(out.kind, i, out.err)]

\* A validate loop that passes over an identifier the store does not hold.
RECURSIVE ValidateFromSkipUnknown(_, _, _, _, _)
ValidateFromSkipUnknown(reg, c, ids, data, i) ==
    IF i > Len(ids) THEN [cache |-> c, ret |-> RetOk]
    ELSE IF ~SchemaIdInRegistry(reg, ids[i]) \/ GetValidatorRaises(reg, c, ids[i])
    THEN ValidateFromSkipUnknown(reg, c, ids, data, i + 1)
    ELSE LET c2 == GetValidator(reg, c, ids[i])
             out == RunValidate(c2[ids[i]], data)
         IN IF out.kind = "ok" THEN ValidateFromSkipUnknown(reg, c2, ids, data, i + 1)
            ELSE [cache |-> c2, ret |-> RaiseAt(out.kind, i, out.err)]

\* The loop of validate_json_against_schemas from position i on: the cache
\* it leaves and what it raises.
RECURSIVE ValidateFrom(_, _, _, _, _)
ValidateFrom(reg, c, ids, data, i) ==
    IF i > Len(ids) THEN [cache |-> c, ret |-> RetOk]
    ELSE IF ~SchemaIdInRegistry(reg, ids[i])
    THEN [cache |-> c, ret |-> RaiseAt("KeyError", i, NoErr)]
    ELSE IF GetValidatorRaises(reg, c, ids[i])
    THEN [cache |-> c, ret |-> RaiseAt("NoSuchResource", i, NoErr)]
    ELSE LET c2 == GetValidator(reg, c, ids[i])
             out == RunValidate(c2[ids[i]], data)
         IN IF out.kind = "ok" THEN ValidateFrom(reg, c2, ids, data, i + 1)
            ELSE [cache |-> c2, ret |-> RaiseAt(out.kind, i, out.err)]

\* validate_json_against_schemas(data, schema_filepaths, schema_ids)
Validate(data, fps, ids) ==
    LET r == ValidateFrom(registry, cache, EffectiveIds(mappings, fps, ids), data, 1)
    IN /\ call' = MkCall("validate", <<>>, NoDoc, "", data, fps, ids)
       /\ hist' = PlainHist
       /\ cache' = r.cache
       /\ ret' = r.ret
       /\ UNCHANGED <<registry, mappings, restvars>>

\* ".".join(p if isinstance(p, str) else "item" for p in error.path)
RECURSIVE JoinPath(_)
JoinPath(path) ==
    IF path = <<>> THEN <<>>
    ELSE LET head == IF path[1].isIndex THEN "item" ELSE path[1].name
         IN IF Len(path) = 1 THEN <<head>>
            ELSE <<head, ".">> \o JoinPath(Tail(path))

\* f"{path}: {error.message}"; error.message names the keyword's argument
\* and the offending value.
Message(e) ==
    [path |-> JoinPath(e.path), text |-> [kw |-> e.kw, val |-> e.val, arg |-> e.arg]]

\* The keys of unique_errors, in the order setdefault first sees them.
RECURSIVE MessagesOf(_, _)
MessagesOf(errors, seen) ==
    IF errors = <<>> THEN <<>>
    ELSE IF Message(errors[1]) \in seen THEN MessagesOf(Tail(errors), seen)
    ELSE <<Message(errors[1])>>
         \o MessagesOf(Tail(errors), seen \cup {Message(errors[1])})

ErrorsWithMessage(errors, msg) ==
    LET Has(e) == Message(e) = msg IN SelectSeq(errors, Has)

\* A grouping keyed by the joined path alone: one group for each path, under
\* the message of the first failure on that path.
GroupsOfByPath(sid, errors) ==
    LET OnPath(e1, e2) == Message(e1).path = Message(e2).path
        firsts == {j \in 1..Len(errors) :
                      \A k \in 1..(j - 1) : ~OnPath(errors[k], errors[j])}
        Nth(n) == CHOOSE j \in firsts : Cardinality({k \in firsts : k <= j}) = n
    IN [n \in 1..Cardinality(firsts) |->
           LET SamePath(e) == OnPath(errors[Nth(n)], e)
           IN [schema_id |-> sid, message |-> Message(errors[Nth(n)]),
               errors |-> SelectSeq(errors, SamePath)]]

\* The groups one identifier adds to validation_errors.
GroupsOf(sid, errors) ==
    LET msgs == MessagesOf(errors, {})
    IN [j \in 1..Len(msgs) |->
           [schema_id |-> sid, message |-> msgs[j],
            errors |-> ErrorsWithMessage(errors, msgs[j])]]

\* The loop of validate_json_against_schemas_complete from position i on,
\* with the groups collected so far.
RECURSIVE CompleteFrom(_, _, _, _, _, _)
CompleteFrom(reg, c, ids, data, i, groups) ==
    IF i > Len(ids) THEN [cache |-> c, ret |-> MkRet("ok", <<>>, 0, NoErr, groups)]
    ELSE IF ~SchemaIdInRegistry(reg, ids[i])
    THEN [cache |-> c, ret |-> RaiseAt("KeyError", i, NoErr)]
    ELSE IF GetValidatorRaises(reg, c, ids[i])
    THEN [cache |-> c, ret |-> RaiseAt("NoSuchResource", i, NoErr)]
    ELSE LET c2 == GetValidator(reg, c, ids[i])
             out == RunIterErrors(c2[ids[i]], data)
         IN IF out.kind = "ok"
            THEN CompleteFrom(reg, c2, ids, data, i + 1,
                              groups \o GroupsOf(ids[i], out.errors))
            ELSE [cache |-> c2, ret |-> RaiseAt(out.kind, i, NoErr)]

\* validate_json_against_schemas_complete(data, schema_filepaths, schema_ids)
ValidateComplete(data, fps, ids) ==
    LET r == CompleteFrom(registry, cache, EffectiveIds(mappings, fps, ids),
                          data, 1, <<>>)
    IN /\ call' = MkCall("validate_complete", <<>>, NoDoc, "", data, fps, ids)
       /\ hist' = PlainHist
       /\ cache' = r.cache
       /\ ret' = r.ret
       /\ UNCHANGED <<registry, mappings, restvars>>

----------------------------------------------------------------------------
(* The parts of the state a specification may leave idle *)

\* No lookup has returned yet.
NoGot == [kind |-> "none", doc |-> NoDoc, id |-> <<>>]

\* check_unresolvable_refs has not been called.
AudIdle == [pc |-> "idle", roots |-> {}, work |-> <<>>, visited |-> {}, found |-> {}]

\* No decorated function has been called.
None == [none |-> TRUE, val |-> 0]
Some(v) == [none |-> FALSE, val |-> v]

\* The truth value Python gives an optional number: None and 0 are false.
Truthy(o) == ~o.none /\ o.val # 0

DefaultArgs ==
    [max_tries |-> None, delay |-> 0, backoff |-> 1, delay_increment |-> 0,
     max_delay |-> None]

\* No retry(...) call has been made. pc: where the decorated function's
\* wrapper stands; outcomes: what each call of the function did; slept: the
\* argument of each sleep; result: what the wrapper returned.
RetryIdle ==
    [pc |-> "idle", args |-> DefaultArgs, max_tries |-> 0, tries |-> 0,
     current_delay |-> 0, outcomes |-> <<>>, slept |-> <<>>, result |-> ""]

\* No reader thread has been started.
ThreadsIdle == <<>>

RestIdle ==
    /\ got = NoGot
    /\ aud = AudIdle
    /\ rt = RetryIdle
    /\ thr = ThreadsIdle

----------------------------------------------------------------------------
(* The unresolvable-reference auditor: check_unresolvable_refs *)

\* A JSON pointer that leads nowhere in any document.
FragBad == <<"#", "/", "x">>

\* The JSON pointer of the fragment leads somewhere in the document: the
\* whole document, or its "properties"/"name" subschema.
FragmentExists(doc, frag) == WholeDocFragment(frag) \/ frag = FragName

\* Every "$ref" value of a document, whatever it is nested in.
AllRefsOf(doc) == doc.refs \o doc.deep

\* A "$ref" met in stored document k resolves: a local one by its pointer
\* in k, a cross-schema one by its prefix, a registered path or, normalised,
\* a registered identifier, and its pointer in the schema found.
AuditResolves(reg, m, k, ref) ==
    IF IsLocalRef(ref) THEN FragmentExists(reg[k], ref)
    ELSE /\ RefFound(reg, m, ref)
         /\ FragmentExists(reg[RefSchemaId(reg, m, ref)], RefFragment(ref))

\* The identifiers the cross-schema references of document k lead to.
AuditTargets(reg, m, k) ==
    LET refs == AllRefsOf(reg[k])
        Leads(ref) == ~IsLocalRef(ref) /\ AuditResolves(reg, m, k, ref)
        led == SelectSeq(refs, Leads)
    IN [i \in 1..Len(led) |-> RefSchemaId(reg, m, led[i])]

\* The entries document k adds to the report.
AuditReports(reg, m, k) ==
    {[schema_id |-> k, ref |-> AllRefsOf(reg[k])[i]] :
        i \in {j \in 1..Len(AllRefsOf(reg[k])) :
                 ~AuditResolves(reg, m, k, AllRefsOf(reg[k])[j])}}

\* check_unresolvable_refs() is called: every identifier of the store is a
\* root still to be walked.
AuditStart ==
    /\ aud.pc # "run"
    /\ aud' = [pc |-> "run", roots |-> DOMAIN registry, work |-> <<>>,
               visited |-> {}, found |-> {}]
    /\ call' = MkCall("audit", <<>>, NoDoc, "", NoData, <<>>, <<>>)
    /\ ret' = RetOk
    /\ hist' = PlainHist
    /\ UNCHANGED <<registry, mappings, cache, normvars, got, rt, thr>>

\* The walk of the previous root is over; the next root is taken.
AuditRoot ==
    /\ aud.pc = "run"
    /\ aud.work = <<>>
    /\ \E k \in aud.roots :
          aud' = [aud EXCEPT !.roots = aud.roots \ {k}, !.work = <<k>>]
    /\ UNCHANGED <<regvars, normvars, got, rt, thr>>

\* The walker visits the identifier on top of its work list: one already
\* visited is dropped; otherwise its references are resolved, the ones that
\* do not resolve are reported, and the schemas the others lead to are put
\* on the work list.
AuditVisit ==
    /\ aud.pc = "run"
    /\ aud.work # <<>>
    /\ LET k == Head(aud.work)
       IN IF k \in aud.visited
          THEN aud' = [aud EXCEPT !.work = Tail(aud.work)]
          ELSE aud' = [aud EXCEPT
                          !.work = Tail(aud.work) \o AuditTargets(registry, mappings, k),
                          !.visited = aud.visited \cup {k},
                          !.found = aud.found \cup AuditReports(registry, mappings, k)]
    /\ UNCHANGED <<regvars, normvars, got, rt, thr>>

\* Every root has been walked: check_unresolvable_refs returns its report.
AuditDone ==
    /\ aud.pc = "run"
    /\ aud.work = <<>>
    /\ aud.roots = {}
    /\ aud' = [aud EXCEPT !.pc = "done"]
    /\ UNCHANGED <<regvars, normvars, got, rt, thr>>

AuditStep == AuditRoot \/ AuditVisit \/ AuditDone

----------------------------------------------------------------------------
(* Reader threads: validate_json_against_schemas,                          *)
(* validate_json_against_schemas_complete and contents called from several *)
(* threads on the one registry. A step is one access of the registry's     *)
(* shared state; what a thread does between two accesses is local to it.   *)

Threads == {"t1", "t2"}

NoValidator == [schema |-> NoDoc, registry |-> <<>>]

\* A thread about to make the call c: i is its position in c.ids, schema
\* and v the locals of _get_validator, groups the list collected so far,
\* doc the document contents returned.
ThreadAt(c) ==
    [call |-> c, i |-> 1, pc |-> "check", schema |-> NoDoc, v |-> NoValidator,
     groups |-> <<>>, ret |-> RetOk, doc |-> NoDoc]

ThreadsRunning == thr # ThreadsIdle

ThreadReturns(t, r) == thr' = [thr EXCEPT ![t].pc = "done", ![t].ret = r]

\* The threads are started, each with the call it is to make.
StartThreads(calls) ==
    /\ ~ThreadsRunning
    /\ thr' = [t \in Threads |-> ThreadAt(calls[t])]
    /\ call' = MkCall("threads", <<>>, NoDoc, "", NoData, <<>>, <<>>)
    /\ ret' = RetOk
    /\ hist' = PlainHist
    /\ UNCHANGED <<registry, mappings, cache, normvars, got, aud, rt>>

\* for schema_id in schema_ids: if not self.schema_id_in_registry(schema_id)
ThreadCheck(t) ==
    /\ ThreadsRunning
    /\ thr[t].pc = "check"
    /\ thr[t].call.op \in {"validate", "validate_complete"}
    /\ LET c == thr[t].call
       IN IF thr[t].i > Len(c.ids)
          THEN ThreadReturns(t, MkRet("ok", <<>>, 0, NoErr, thr[t].groups))
          ELSE IF ~SchemaIdInRegistry(registry, c.ids[thr[t].i])
          THEN ThreadReturns(t, RaiseAt("KeyError", thr[t].i, NoErr))
          ELSE thr' = [thr EXCEPT ![t].pc = "lookup"]
    /\ UNCHANGED <<regvars, normvars, got, aud, rt>>

\* _get_validator: if schema_id not in self._validator_cache
ThreadLookup(t) ==
    /\ ThreadsRunning
    /\ thr[t].pc = "lookup"
    /\ thr' = [thr EXCEPT ![t].pc =
                  IF thr[t].call.ids[thr[t].i] \in DOMAIN cache
                  THEN "fetch" ELSE "contents"]
    /\ UNCHANGED <<regvars, normvars, got, aud, rt>>

\* _get_validator: schema = self._registry.contents(schema_id)
ThreadContents(t) ==
    /\ ThreadsRunning
    /\ thr[t].pc = "contents"
    /\ LET sid == thr[t].call.ids[thr[t].i]
       IN IF sid \notin DOMAIN registry
          THEN ThreadReturns(t, RaiseAt("NoSuchResource", thr[t].i, NoErr))
          ELSE thr' = [thr EXCEPT ![t].pc = "store", ![t].schema = registry[sid]]
    /\ UNCHANGED <<regvars, normvars, got, aud, rt>>

\* A _get_validator that builds the validator without the registry.
ThreadStoreUnbound(t) ==
    /\ ThreadsRunning
    /\ thr[t].pc = "store"
    /\ LET sid == thr[t].call.ids[thr[t].i]
           built == [schema |-> thr[t].schema, registry |-> <<>>]
       IN cache' = (sid :> built) @@ cache
    /\ thr' = [thr EXCEPT ![t].pc = "fetch"]
    /\ UNCHANGED <<registry, mappings, call, ret, hist, normvars, got, aud, rt>>

\* _get_validator: self._validator_cache[schema_id] = Draft7Validator(schema,
\* registry=self._registry)
ThreadStore(t) ==
    /\ ThreadsRunning
    /\ thr[t].pc = "store"
    /\ LET sid == thr[t].call.ids[thr[t].i]
           built == [schema |-> thr[t].schema, registry |-> registry]
       IN cache' = (sid :> built) @@ cache
    /\ thr' = [thr EXCEPT ![t].pc = "fetch"]
    /\ UNCHANGED <<registry, mappings, call, ret, hist, normvars, got, aud, rt>>

\* _get_validator: return self._validator_cache[schema_id], a KeyError when
\* the cache has been cleared since the entry was seen or stored
ThreadFetch(t) ==
    /\ ThreadsRunning
    /\ thr[t].pc = "fetch"
    /\ IF thr[t].call.ids[thr[t].i] \in DOMAIN cache
       THEN thr' = [thr EXCEPT ![t].pc = "run",
                               ![t].v = cache[thr[t].call.ids[thr[t].i]]]
       ELSE ThreadReturns(t, RaiseAt("KeyError", thr[t].i, NoErr))
    /\ UNCHANGED <<regvars, normvars, got, aud, rt>>

\* validator.validate(data), or list(validator.iter_errors(data)) and the
\* grouping of what it yields
ThreadRun(t) ==
    /\ ThreadsRunning
    /\ thr[t].pc = "run"
    /\ LET c == thr[t].call
           one == RunValidate(thr[t].v, c.data)
           all == RunIterErrors(thr[t].v, c.data)
       IN IF c.op = "validate"
          THEN IF one.kind = "ok"
               THEN thr' = [thr EXCEPT ![t].pc = "check", ![t].i = thr[t].i + 1]
               ELSE ThreadReturns(t, RaiseAt(one.kind, thr[t].i, one.err))
          ELSE IF all.kind = "ok"
               THEN thr' = [thr EXCEPT
                               ![t].pc = "check", ![t].i = thr[t].i + 1,
                               ![t].groups = thr[t].groups
                                   \o GroupsOf(c.ids[thr[t].i], all.errors)]
               ELSE ThreadReturns(t, RaiseAt(all.kind, thr[t].i, NoErr))
    /\ UNCHANGED <<regvars, normvars, got, aud, rt>>

\* contents(schema_id): self._registry.contents(self._clean_schema_id(schema_id))
ThreadGetContents(t) ==
    /\ ThreadsRunning
    /\ thr[t].pc = "check"
    /\ thr[t].call.op = "contents"
    /\ LET sid == CleanSchemaId(thr[t].call.ids[1])
       IN IF sid \in DOMAIN registry
          THEN thr' = [thr EXCEPT ![t].pc = "done", ![t].doc = registry[sid]]
          ELSE ThreadReturns(t, RetRaise("NoSuchResource"))
    /\ UNCHANGED <<regvars, normvars, got, aud, rt>>

----------------------------------------------------------------------------
(* A writer beside a reader thread: register_schema of a new document or   *)
(* update_schema_refs_to in thread "w" while thread "t1" validates. A step *)
(* of the writer is one assignment to the registry's shared state.         *)

\* The writer about to make the call c. locked: the caller holds a lock
\* around each of the two calls, so that neither starts while the other is
\* under way. todo: the keys update_schema_refs_to has still to rewrite.
WriterAt(c, locked) == [call |-> c, pc |-> "start", locked |-> locked, todo |-> {}]

ReaderBegun == ~(thr["t1"].pc = "check" /\ thr["t1"].i = 1)

ReaderMayStep == thr["w"].locked => thr["w"].pc \in {"start", "done"}

WriterMayStep == thr["w"].locked => (~ReaderBegun \/ thr["t1"].pc = "done")

WriterFrame == UNCHANGED <<mappings, call, ret, hist, normvars, got, aud, rt>>

\* The two threads are started.
StartRace(rc, wc, locked) ==
    /\ ~ThreadsRunning
    /\ thr' = ("t1" :> ThreadAt(rc)) @@ ("w" :> WriterAt(wc, locked))
    /\ call' = MkCall("race", <<>>, NoDoc, "", NoData, <<>>, <<>>)
    /\ ret' = RetOk
    /\ hist' = PlainHist
    /\ UNCHANGED <<registry, mappings, cache, normvars, got, aud, rt>>

Racing == ThreadsRunning /\ "w" \in DOMAIN thr

\* _register_schema up to self._registry = self._registry.with_resource(...),
\* for a document whose identifier the store does not hold; it returns at
\* once when the store holds it.
WriterInsert ==
    /\ Racing /\ WriterMayStep
    /\ thr["w"].pc = "start"
    /\ thr["w"].call.op = "register_doc"
    /\ LET doc == thr["w"].call.doc
           sid == CleanSchemaId(doc.id)
       IN IF sid \in DOMAIN registry
          THEN /\ thr' = [thr EXCEPT !["w"].pc = "done"]
               /\ UNCHANGED registry
          ELSE /\ registry' = (sid :> doc) @@ registry
               /\ thr' = [thr EXCEPT !["w"].pc = "clear"]
    /\ UNCHANGED cache
    /\ WriterFrame

\* A _register_schema that returns without clearing the validator cache.
WriterClearSkipped ==
    /\ Racing /\ WriterMayStep
    /\ thr["w"].pc = "clear"
    /\ thr' = [thr EXCEPT !["w"].pc = "done"]
    /\ UNCHANGED <<registry, cache>>
    /\ WriterFrame

\* _register_schema: self._validator_cache.clear(), and the return
WriterClear ==
    /\ Racing /\ WriterMayStep
    /\ thr["w"].pc = "clear"
    /\ cache' = <<>>
    /\ thr' = [thr EXCEPT !["w"].pc = "done"]
    /\ UNCHANGED registry
    /\ WriterFrame

\* update_schema_refs_to: self._validator_cache.clear(), and the start of
\* the loop over the keys of the store
WriterUpdateClear ==
    /\ Racing /\ WriterMayStep
    /\ thr["w"].pc = "start"
    /\ thr["w"].call.op = "update"
    /\ cache' = <<>>
    /\ thr' = [thr EXCEPT !["w"].pc = IF DOMAIN registry = {} THEN "done" ELSE "rewrite",
                          !["w"].todo = DOMAIN registry]
    /\ UNCHANGED registry
    /\ WriterFrame

\* update_schema_refs_to: one pass of the loop, for the next key in the
\* store's iteration order, whatever that order is
WriterRewrite ==
    /\ Racing /\ WriterMayStep
    /\ thr["w"].pc = "rewrite"
    /\ \E k \in thr["w"].todo :
          /\ registry' = [registry EXCEPT ![k] =
                             ResolveSchemaRefs(registry, mappings, registry[k],
                                               thr["w"].call.form)]
          /\ thr' = [thr EXCEPT !["w"].todo = @ \ {k},
                                !["w"].pc = IF thr["w"].todo = {k} THEN "done"
                                            ELSE "rewrite"]
    /\ UNCHANGED cache
    /\ WriterFrame

----------------------------------------------------------------------------
(* Lookups: contents, get_schema, get_schema_id *)

\* What a lookup returned: a document, an identifier, or None.
GotDoc(doc) == [kind |-> "doc", doc |-> doc, id |-> <<>>]
GotId(id) == [kind |-> "id", doc |-> NoDoc, id |-> id]
GotNone == [kind |-> "None", doc |-> NoDoc, id |-> <<>>]

\* A lookup that hands the identifier to the store as the caller wrote it.
RegistryContentsRaw(reg, sid) ==
    IF sid \in DOMAIN reg
    THEN [kind |-> "ok", got |-> GotDoc(reg[sid])]
    ELSE [kind |-> "KeyError", got |-> NoGot]

\* self._registry.contents(self._clean_schema_id(schema_id)): the document,
\* or NoSuchResource, which is a KeyError.
RegistryContents(reg, sid) ==
    IF CleanSchemaId(sid) \in DOMAIN reg
    THEN [kind |-> "ok", got |-> GotDoc(reg[CleanSchemaId(sid)])]
    ELSE [kind |-> "KeyError", got |-> NoGot]

Lookup(op, path, sid, r) ==
    /\ call' = MkCall(op, path, NoDoc, "", NoData, <<>>, <<sid>>)
    /\ hist' = PlainHist
    /\ ret' = RetRaise(r.kind)
    /\ got' = r.got
    /\ UNCHANGED <<registry, mappings, cache, normvars, aud, rt, thr>>

\* contents(schema_id)
Contents(sid) == Lookup("contents", <<>>, sid, RegistryContents(registry, sid))

\* get_schema(schema_id)
GetSchema(sid) == Lookup("get_schema", <<>>, sid, RegistryContents(registry, sid))

\* get_schema_id(schema_filepath): self._schema_mappings.get(resolved path)
GetSchemaId(p) ==
    Lookup("get_schema_id", p, <<>>,
           [kind |-> "ok",
            got |-> IF MapHas(mappings, PathResolve(p))
                    THEN GotId(MapGet(mappings, PathResolve(p)))
                    ELSE GotNone])

----------------------------------------------------------------------------
(* The retry decorator: retry, _retry_internal, _next_delay *)

\* Largest max_tries handed to retry.
MaxTries == 3

\* Most calls of the decorated function followed in one run of the wrapper.
MaxCalls == MaxTries + 1

Min(a, b) == IF a <= b THEN a ELSE b

\* The checks at the head of retry(...): TRUE when one of them raises ValueError.
RetryRejects(a) ==
    \/ Truthy(a.max_tries) /\ a.max_tries.val < 1
    \/ a.delay < 0
    \/ a.backoff < 1
    \/ a.delay_increment < 0
    \/ Truthy(a.max_delay) /\ a.max_delay.val < 0

\* _next_delay(delay, backoff, delay_increment, max_delay)
NextDelay(delay, backoff, delay_increment, max_delay) ==
    LET d == delay * backoff + delay_increment
    IN IF Truthy(max_delay) THEN Min(d, max_delay.val) ELSE d

\* What the function under the wrapper does when called: it returns a
\* value, raises an exception the wrapper catches, or raises another one.
Returns == {"r1", "r2"}
Outcomes == Returns \cup {"caught", "uncaught"}

\* A loop body that sleeps after every failed attempt, the last included.
RetryIterationSleepLast(r, o) ==
    LET called == [r EXCEPT !.outcomes = Append(@, o)]
    IN IF o \in Returns THEN [called EXCEPT !.pc = "returned", !.result = o]
       ELSE IF o = "uncaught" THEN [called EXCEPT !.pc = "raised"]
       ELSE LET failed == [called EXCEPT !.tries = @ + 1]
                slept == [failed EXCEPT
                             !.slept = Append(@, failed.current_delay),
                             !.current_delay =
                                 NextDelay(@, r.args.backoff, r.args.delay_increment,
                                           r.args.max_delay)]
            IN IF failed.tries # failed.max_tries
               THEN slept
               ELSE [slept EXCEPT !.pc = "RetryError"]

\* One pass of the loop of _retry_internal, entered with tries # max_tries:
\* the call, and after a caught exception the count, the sleep and the next
\* delay; when the count reaches max_tries the loop ends and RetryError is
\* raised.
RetryIteration(r, o) ==
    LET called == [r EXCEPT !.outcomes = Append(@, o)]
    IN IF o \in Returns THEN [called EXCEPT !.pc = "returned", !.result = o]
       ELSE IF o = "uncaught" THEN [called EXCEPT !.pc = "raised"]
       ELSE LET failed == [called EXCEPT !.tries = @ + 1]
            IN IF failed.tries # failed.max_tries
               THEN [failed EXCEPT
                        !.slept = Append(@, failed.current_delay),
                        !.current_delay =
                            NextDelay(@, r.args.backoff, r.args.delay_increment,
                                      r.args.max_delay)]
               ELSE [failed EXCEPT !.pc = "RetryError"]

RetryFrame == UNCHANGED <<regvars, normvars, got, aud, thr>>

\* retry(max_tries, delay, exceptions, backoff, delay_increment, max_delay)(func)
RetryDecorate(a) ==
    /\ rt.pc \in {"idle", "ValueError", "returned", "raised", "RetryError"}
    /\ rt' = [RetryIdle EXCEPT
                 !.pc = IF RetryRejects(a) THEN "ValueError" ELSE "decorated",
                 !.args = a]
    /\ RetryFrame

\* The wrapper is called: the head of _retry_internal.
RetryCall ==
    /\ rt.pc = "decorated"
    /\ rt' = [rt EXCEPT
                 !.pc = "loop",
                 !.current_delay =
                     IF Truthy(rt.args.max_delay)
                     THEN Min(rt.args.delay, rt.args.max_delay.val)
                     ELSE rt.args.delay,
                 !.tries = 0,
                 !.max_tries = IF Truthy(rt.args.max_tries)
                               THEN rt.args.max_tries.val ELSE -1]
    /\ RetryFrame

\* One pass of the loop.
RetryStep(o) ==
    /\ rt.pc = "loop"
    /\ rt.tries # rt.max_tries
    /\ Len(rt.outcomes) < MaxCalls
    /\ rt' = RetryIteration(rt, o)
    /\ RetryFrame

----------------------------------------------------------------------------
(* Specifications *)

RegInit ==
    /\ registry = <<>>
    /\ mappings = <<>>
    /\ cache = <<>>
    /\ call = NoCall
    /\ ret = RetOk
    /\ hist = MkHist(<<>>, <<>>, <<>>, FALSE, <<>>, <<>>, <<>>)

NormIdle ==
    /\ nraw = <<>>
    /\ nonce = <<>>
    /\ ntwice = <<>>
    /\ npc = 0

\* The registry: every file and in-memory document, both reference forms,
\* and validation through each identifier on its own.
PathArgs == {RelA, PathA2, RelP, RelX, RelMissing}
DocArgs == {DocQ, DocP, DocNoId}
Forms == {"id", "filepath"}
DataArgs == {[name |-> "ok", tags |-> <<"ok">>]}
IdListArgs == { << <<"p">> >>, << <<"q">> >> }

Init == RegInit /\ NormIdle /\ RestIdle

Next ==
    \/ \E p \in PathArgs : RegisterPath(p)
    \/ \E d \in DocArgs : RegisterDoc(d)
    \/ \E f \in Forms : UpdateSchemaRefsTo(f)
    \/ \E d \in DataArgs, ids \in IdListArgs : Validate(d, <<>>, ids)
    \/ \E d \in DataArgs, ids \in IdListArgs : ValidateComplete(d, <<>>, ids)

Spec == Init /\ [][Next]_vars

\* The normaliser alone, on every string up to MaxLen.
InitNorm == RegInit /\ NormInit /\ RestIdle

NextNorm ==
    \/ NormOnce /\ UNCHANGED <<regvars, got, aud, rt, thr>>
    \/ NormTwice /\ UNCHANGED <<regvars, got, aud, rt, thr>>

SpecNorm == InitNorm /\ [][NextNorm]_vars

\* Longest schema_ids list handed to a validate entry point.
MaxIds == 2

\* Validation: two schema files, one referring to the other, every
\* identifier list up to MaxIds over the two identifiers, a non-canonical
\* spelling and a never registered identifier, and data with and without
\* failures. SpecVal calls the fail-fast entry point, SpecComplete the
\* collecting one.
PathArgsVal == {RelA, RelP}
IdArgsVal == {<<"a">>, <<"p">>, <<"A">>, <<"z">>}
DataArgsVal ==
    {[name |-> "ok", tags |-> <<"ok">>],
     [name |-> "123", tags |-> <<>>],
     [name |-> "ok", tags |-> <<"123", "123">>]}

NextVal ==
    \/ \E p \in PathArgsVal : RegisterPath(p)
    \/ UpdateSchemaRefsTo("id")
    \/ \E d \in DataArgsVal, ids \in SeqsUpTo(IdArgsVal, MaxIds) :
           Validate(d, <<>>, ids)

SpecVal == Init /\ [][NextVal]_vars

NextComplete ==
    \/ \E p \in PathArgsVal : RegisterPath(p)
    \/ UpdateSchemaRefsTo("id")
    \/ \E d \in DataArgsVal, ids \in SeqsUpTo(IdArgsVal, MaxIds) :
           ValidateComplete(d, <<>>, ids)

SpecComplete == Init /\ [][NextComplete]_vars

\* The auditor: two schema files, one referring to the other by path, two
\* in-memory documents that refer to each other, and one whose references
\* name a pointer that leads nowhere and a schema never registered. No other
\* call is made while check_unresolvable_refs runs.
DocC == MkDoc(TRUE, <<"c">>, "string", FALSE, << <<"d">> >>)
DocD == MkDoc(TRUE, <<"d">>, "string", FALSE, << <<"C">> \o FragName >>)
DocE == MkDoc(TRUE, <<"e">>, "string", FALSE, << <<"c">> \o FragBad, <<"z">> >>)
DocArgsAudit == {DocC, DocD, DocE}

NextAudit ==
    \/ aud.pc # "run" /\ \E p \in PathArgsVal : RegisterPath(p)
    \/ aud.pc # "run" /\ \E d \in DocArgsAudit : RegisterDoc(d)
    \/ aud.pc # "run" /\ \E f \in Forms : UpdateSchemaRefsTo(f)
    \/ AuditStart
    \/ AuditRoot
    \/ AuditVisit
    \/ AuditDone

SpecAudit == Init /\ [][NextAudit]_vars

\* The auditor and the walker on the in-memory documents alone. The running
\* call keeps executing until it returns.
NextCycle ==
    \/ aud.pc # "run" /\ \E d \in DocArgsAudit : RegisterDoc(d)
    \/ aud.pc # "run" /\ UpdateSchemaRefsTo("id")
    \/ AuditStart
    \/ AuditRoot
    \/ AuditVisit
    \/ AuditDone

SpecAuditLive == Init /\ [][NextCycle]_vars /\ WF_vars(AuditStep)

\* Reader threads on a settled registry: once the threads are started no
\* registering or rewriting call is made.
ThreadCallArgs ==
    {MkCall("validate", <<>>, NoDoc, "", [name |-> "ok", tags |-> <<"ok">>],
            <<>>, << <<"p">>, <<"a">> >>),
     MkCall("validate", <<>>, NoDoc, "", [name |-> "123", tags |-> <<>>],
            <<>>, << <<"a">>, <<"z">> >>),
     MkCall("validate_complete", <<>>, NoDoc, "",
            [name |-> "ok", tags |-> <<"123", "123">>], <<>>, << <<"p">>, <<"a">> >>),
     MkCall("validate_complete", <<>>, NoDoc, "", [name |-> "123", tags |-> <<>>],
            <<>>, << <<"A">> >>),
     MkCall("contents", <<>>, NoDoc, "", NoData, <<>>, << <<"A">> >>),
     MkCall("contents", <<>>, NoDoc, "", NoData, <<>>, << <<"z">> >>)}

NextThreads ==
    \/ ~ThreadsRunning /\ \E p \in PathArgsVal : RegisterPath(p)
    \/ ~ThreadsRunning /\ UpdateSchemaRefsTo("id")
    \/ \E calls \in [Threads -> ThreadCallArgs] : StartThreads(calls)
    \/ \E t \in Threads : ThreadCheck(t)
    \/ \E t \in Threads : ThreadLookup(t)
    \/ \E t \in Threads : ThreadContents(t)
    \/ \E t \in Threads : ThreadStore(t)
    \/ \E t \in Threads : ThreadFetch(t)
    \/ \E t \in Threads : ThreadRun(t)
    \/ \E t \in Threads : ThreadGetContents(t)

SpecThreads == Init /\ [][NextThreads]_vars

\* Identifier derivation: files with and without a declared identifier, one
\* of them at a path that normalises to the empty string, and in-memory
\* documents with and without one, one of them declaring the identifier a
\* file's path normalises to.
PathArgsDerive == {RelA, RelX, PathDotJson, RelMissing}
DocArgsDerive == {DocNoId, DocW, DocQ}

NextDerive ==
    \/ \E p \in PathArgsDerive : RegisterPath(p)
    \/ \E d \in DocArgsDerive : RegisterDoc(d)

SpecDerive == Init /\ [][NextDerive]_vars

\* Lookups between registrations: by canonical and non-canonical spellings
\* of registered identifiers and by one never registered; by relative and
\* absolute spellings of registered paths and by one never registered.
PathArgsLookup == {RelA, PathA, RelP, RelX, RelMissing}

NextLookup ==
    \/ \E p \in PathArgsVal \cup {RelX} : RegisterPath(p)
    \/ UpdateSchemaRefsTo("id")
    \/ \E sid \in IdArgsVal : Contents(sid)
    \/ \E sid \in IdArgsVal : GetSchema(sid)
    \/ \E p \in PathArgsLookup : GetSchemaId(p)

SpecLookup == Init /\ [][NextLookup]_vars

\* The retry decorator: every max_tries from -1 to MaxTries and None, and
\* for each other argument its default, a second accepted value and a
\* rejected one; the function's outcome is free at every call.
RetryArgs ==
    [max_tries : {None} \cup {Some(n) : n \in -1..MaxTries},
     delay : {-1, 0, 1},
     backoff : {0, 1, 2},
     delay_increment : {-1, 0, 1},
     max_delay : {None, Some(-1), Some(0), Some(2)}]

NextRetry ==
    \/ \E a \in RetryArgs : RetryDecorate(a)
    \/ RetryCall
    \/ \E o \in Outcomes : RetryStep(o)

SpecRetry == Init /\ [][NextRetry]_vars

\* Rewriting: files with a path-form reference, an unresolved one and a
\* local one, and in-memory documents that refer to each other by canonical
\* and non-canonical identifiers and have no source path.
PathArgsRewrite == {RelA, RelP, RelX}
DocArgsRewrite == {DocC, DocD, DocQ}

NextRewrite ==
    \/ \E p \in PathArgsRewrite : RegisterPath(p)
    \/ \E d \in DocArgsRewrite : RegisterDoc(d)
    \/ \E f \in Forms : UpdateSchemaRefsTo(f)

SpecRewrite == Init /\ [][NextRewrite]_vars

\* Validation by source path: every list up to MaxIds over two registered
\* files and a path never registered.
PathArgsByPath == {RelA, RelP, RelMissing}

NextByPath ==
    \/ \E p \in PathArgsVal : RegisterPath(p)
    \/ \E d \in DataArgsVal, fps \in SeqsUpTo(PathArgsByPath, MaxIds) :
           Validate(d, fps, <<>>)
    \/ \E d \in DataArgsVal, fps \in SeqsUpTo(PathArgsByPath, MaxIds) :
           ValidateComplete(d, fps, <<>>)

SpecByPath == Init /\ [][NextByPath]_vars

\* Directories: one whose files declare pairwise distinct identifiers, one
\* of them referring to another, and one with two files that declare the
\* same identifier; the glob may yield the files of a directory in any order.
Directories == {{PathA, PathP, PathX}, {PathA, PathA2, PathP}}

Orders(dir) ==
    {o \in [1..Cardinality(dir) -> dir] :
        \A i, j \in 1..Cardinality(dir) : o[i] = o[j] => i = j}

NextDirectory ==
    \/ \E dir \in Directories : \E o \in Orders(dir) : RegisterDirectory(o)
    \/ \E p \in {RelA, PathA2, RelX} : RegisterPath(p)
    \/ \E d \in {DocQ, DocW} : RegisterDoc(d)
    \/ \E f \in Forms : UpdateSchemaRefsTo(f)

SpecDirectory == Init /\ [][NextDirectory]_vars

\* Identifiers that normalise to the empty string: a file at such a path
\* and an in-memory document that declares such an identifier, among others.
NextEmptyId ==
    \/ \E p \in {PathDotJson, RelA, RelX} : RegisterPath(p)
    \/ \E d \in {DocDash, DocNoId, DocQ} : RegisterDoc(d)
    \/ \E f \in Forms : UpdateSchemaRefsTo(f)

SpecEmptyId == Init /\ [][NextEmptyId]_vars

\* The two validate entry points on the same stores, identifier lists and
\* data, among them data that fails one schema by its name and reaches a
\* reference of another through its tags.
DataArgsAgree == DataArgsVal \cup {[name |-> "123", tags |-> <<"ok">>]}

NextAgree ==
    \/ \E p \in PathArgsVal : RegisterPath(p)
    \/ UpdateSchemaRefsTo("id")
    \/ \E d \in DataArgsAgree, ids \in SeqsUpTo({<<"a">>, <<"p">>}, MaxIds) :
           Validate(d, <<>>, ids)
    \/ \E d \in DataArgsAgree, ids \in SeqsUpTo({<<"a">>, <<"p">>}, MaxIds) :
           ValidateComplete(d, <<>>, ids)

SpecAgree == Init /\ [][NextAgree]_vars

\* A validate call beside a registration of a new document or a rewrite,
\* on a store prepared by sequential calls, with and without a lock held by
\* the caller around each call.
ReaderCallArgs ==
    {MkCall("validate", <<>>, NoDoc, "", [name |-> "ok", tags |-> <<"ok">>],
            <<>>, << <<"p">> >>),
     MkCall("validate", <<>>, NoDoc, "", [name |-> "ok", tags |-> <<>>],
            <<>>, << <<"a">> >>)}

WriterCallArgs ==
    {MkCall("register_doc", <<>>, DocQ, "", NoData, <<>>, <<>>),
     MkCall("update", <<>>, NoDoc, "id", NoData, <<>>, <<>>)}

NextRace ==
    \/ ~ThreadsRunning /\ \E p \in PathArgsVal : RegisterPath(p)
    \/ ~ThreadsRunning /\ \E d \in DataArgs : Validate(d, <<>>, << <<"a">> >>)
    \/ \E rc \in ReaderCallArgs, wc \in WriterCallArgs, locked \in BOOLEAN :
           StartRace(rc, wc, locked)
    \/ Racing /\ ReaderMayStep /\ ThreadCheck("t1")
    \/ Racing /\ ReaderMayStep /\ ThreadLookup("t1")
    \/ Racing /\ ReaderMayStep /\ ThreadContents("t1")
    \/ Racing /\ ReaderMayStep /\ ThreadStore("t1")
    \/ Racing /\ ReaderMayStep /\ ThreadFetch("t1")
    \/ Racing /\ ReaderMayStep /\ ThreadRun("t1")
    \/ WriterInsert
    \/ WriterClear
    \/ WriterUpdateClear
    \/ WriterRewrite

SpecRace == Init /\ [][NextRace]_vars

----------------------------------------------------------------------------
(* Claims *)

IsRegister == call.op \in {"register_path", "register_doc"}

\* The register_schema call read a file or was handed a document.
RegisterReachedStore ==
    \/ call.op = "register_doc"
    \/ call.op = "register_path" /\ PathResolve(call.path) \in DOMAIN Files

\* The document the call hands to _register_schema.
Candidate ==
    IF call.op = "register_path" THEN LoadedDoc(PathResolve(call.path)) ELSE call.doc

CandidateId == CleanSchemaId(Candidate.id)

\* C1: identifier normalisation is idempotent: normalising the output of
\* the normaliser returns it unchanged, for every input string.
C1_NormalizationIdempotent == npc = 2 => ntwice = nonce

\* The normaliser has been applied twice to an input it changes into a
\* non-empty identifier.
C1_Witness == npc = 2 /\ nonce # nraw /\ nonce # <<>>

\* C2: registering the same path, or the same in-memory document, a second
\* time returns the identifier the first call returned, raises nothing, and
\* leaves the store and the path mapping as they were.
C2_RegistrationIdempotent ==
    (IsRegister /\ hist.again) =>
        /\ ret.kind = "ok"
        /\ ret.id = hist.prevId
        /\ registry = hist.reg
        /\ mappings = hist.map

\* A path whose document carries references has been registered twice in a row.
C2_Witness ==
    /\ call.op = "register_path"
    /\ call.path = RelP
    /\ hist.again
    /\ ret.kind = "ok"

\* C3: register_schema of a document whose declared identifier normalises
\* to a key of the store, and which differs from the document stored under
\* that key, raises KeyError.
C3_ConflictDetected ==
    (/\ IsRegister
     /\ RegisterReachedStore
     /\ Candidate.hasId
     /\ Candidate.id # <<>>
     /\ CandidateId \in DOMAIN hist.reg
     /\ hist.reg[CandidateId] # Candidate)
    => ret.kind = "KeyError"

\* A second file declaring the identifier of a registered file, with a
\* different type, has been refused.
C3_Witness ==
    /\ call.op = "register_path"
    /\ call.path = PathA2
    /\ ret.kind = "KeyError"
    /\ <<"a">> \in DOMAIN hist.reg

\* Two documents differ only in the form of cross-schema references that
\* resolve to the same registered schema and carry the same fragment.
SameUpToRefForm(reg, m, d1, d2) ==
    /\ [d1 EXCEPT !.refs = <<>>] = [d2 EXCEPT !.refs = <<>>]
    /\ Len(d1.refs) = Len(d2.refs)
    /\ \A i \in 1..Len(d1.refs) :
          \/ d1.refs[i] = d2.refs[i]
          \/ /\ ~IsLocalRef(d1.refs[i])
             /\ ~IsLocalRef(d2.refs[i])
             /\ RefFound(reg, m, d1.refs[i])
             /\ RefFound(reg, m, d2.refs[i])
             /\ RefSchemaId(reg, m, d1.refs[i]) = RefSchemaId(reg, m, d2.refs[i])
             /\ RefFragment(d1.refs[i]) = RefFragment(d2.refs[i])

\* C4: re-registering a document under an existing identifier raises no
\* conflict when it differs from the stored document only in the form, path
\* or identifier, of references that resolve to the same registered schema.
C4_RefFormAccepted ==
    (/\ IsRegister
     /\ RegisterReachedStore
     /\ Candidate.hasId
     /\ Candidate.id # <<>>
     /\ CandidateId \in DOMAIN hist.reg
     /\ SameUpToRefForm(hist.reg, hist.map, hist.reg[CandidateId], Candidate))
    => ret.kind = "ok"

\* C5: every validator in the validator cache is bound to the current
\* store: it was built from the document now stored under its key and
\* resolves references in the registry as it is now.
C5_CacheCoherent ==
    \A k \in DOMAIN cache :
        /\ k \in DOMAIN registry
        /\ cache[k].schema = registry[k]
        /\ cache[k].registry = registry

\* A register_schema call has added an identifier while validators were
\* cached, and a validator built afterwards resolves its reference.
C5_WitnessInvalidated ==
    /\ IsRegister
    /\ ret.kind = "ok"
    /\ ret.id \notin DOMAIN hist.reg
    /\ hist.cached # {}
    /\ cache = <<>>

\* The identifier list a validate call works through.
CallIds == EffectiveIds(mappings, call.fps, call.ids)

IsValidate == call.op = "validate"
IsComplete == call.op = "validate_complete"

\* The positions of the list whose identifier is not registered.
Unregistered == {i \in 1..Len(CallIds) : ~SchemaIdInRegistry(registry, CallIds[i])}

FirstUnregistered == CHOOSE i \in Unregistered : \A j \in Unregistered : i <= j

\* C6 as stated: a validate call whose list holds an unregistered identifier
\* raises KeyError, whatever the data and the rest of the list.
C6_UnknownRaisesNotFound ==
    (IsValidate /\ Unregistered # {}) => ret.kind = "KeyError"

\* C6: a validate call whose list holds an unregistered identifier never
\* returns normally: it raises KeyError at the first unregistered identifier,
\* unless the check of an identifier before it in the list raised first.
C6_UnknownRaisesUnlessEarlierFailure ==
    (IsValidate /\ Unregistered # {}) =>
        /\ ret.kind # "ok"
        /\ ret.at \in 1..FirstUnregistered
        /\ ret.at = FirstUnregistered => ret.kind = "KeyError"

\* A registered identifier has passed and the unregistered one after it has
\* raised KeyError.
C6_Witness ==
    /\ IsValidate
    /\ Unregistered # {}
    /\ FirstUnregistered = 2
    /\ ret.kind = "KeyError"
    /\ ret.at = 2

\* The check of the identifier at position i fails when it is made on its
\* own against the current store.
CheckFails(i) ==
    \/ ~SchemaIdInRegistry(registry, CallIds[i])
    \/ CallIds[i] \notin DOMAIN registry
    \/ RunValidate(MkValidator(registry, CallIds[i]), call.data).kind # "ok"

Failing == {i \in 1..Len(CallIds) : CheckFails(i)}

FirstFailing == CHOOSE i \in Failing : \A j \in Failing : i <= j

\* C7: validate_json_against_schemas works through the list in order: it
\* returns normally when no identifier's check fails, and otherwise raises at
\* the first identifier whose check fails, with that validator's first
\* failure, and the validator cache gains an entry for no identifier after it.
C7_FailFastOrdered ==
    IsValidate =>
        IF Failing = {}
        THEN /\ ret.kind = "ok"
             /\ DOMAIN cache = hist.cached \cup {CallIds[i] : i \in 1..Len(CallIds)}
        ELSE /\ ret.kind # "ok"
             /\ ret.at = FirstFailing
             /\ ret.kind = "ValidationError" =>
                    ret.err = RunValidate(MkValidator(registry, CallIds[ret.at]),
                                          call.data).err
             /\ DOMAIN cache \subseteq
                    hist.cached \cup {CallIds[i] : i \in 1..FirstFailing}

\* The first of two identifiers has raised a validation failure while the
\* second, registered and different, had no cached validator and has none now.
C7_Witness ==
    /\ IsValidate
    /\ Len(CallIds) = 2
    /\ ret.kind = "ValidationError"
    /\ ret.at = 1
    /\ CallIds[2] \in DOMAIN registry
    /\ CallIds[2] # CallIds[1]
    /\ CallIds[2] \notin hist.cached
    /\ CallIds[2] \notin DOMAIN cache

\* The data complies with the schema stored for the identifier at position i.
Complies(i) ==
    LET v == MkValidator(registry, CleanSchemaId(CallIds[i]))
    IN /\ ~(FollowsRef(v, call.data) /\ ~ValidatorResolves(v, v.schema.refs[1]))
       /\ NameErrors(v, call.data) \o TagErrors(v, call.data) = <<>>

\* C8: validate_json_against_schemas_complete, when every requested
\* identifier is registered, raises nothing and returns a list that is empty
\* exactly when the data complies with every requested schema.
C8_CompleteNeverRaises ==
    (IsComplete /\ Unregistered = {}) =>
        /\ ret.kind = "ok"
        /\ ret.groups = <<>> <=> \A i \in 1..Len(CallIds) : Complies(i)

\* The failures the validator of a registered canonical identifier yields.
FailuresOf(sid) == RunIterErrors(MkValidator(registry, sid), call.data).errors

Occurrences(sid) == Cardinality({i \in 1..Len(CallIds) : CallIds[i] = sid})

GroupsWith(sid, msg) ==
    {j \in 1..Len(ret.groups) :
        ret.groups[j].schema_id = sid /\ ret.groups[j].message = msg}

\* C9 as stated: no two groups of the returned list share the same
\* identifier and the same joined path.
C9_GroupedByPath ==
    (IsComplete /\ ret.kind = "ok") =>
        \A j, k \in 1..Len(ret.groups) :
            (/\ ret.groups[j].schema_id = ret.groups[k].schema_id
             /\ ret.groups[j].message.path = ret.groups[k].message.path)
            => j = k

\* C9: the returned list groups the failures of each entry of the identifier
\* list by message string, the joined path followed by the validator's
\* message: every failure is in the group of its identifier and message and in
\* no other, every group holds exactly the failures of its identifier that carry
\* its message, and an identifier listed n times has n groups for each message.
C9_GroupedByMessage ==
    (IsComplete /\ ret.kind = "ok") =>
        /\ \A j \in 1..Len(ret.groups) :
              LET g == ret.groups[j]
              IN /\ \E i \in 1..Len(CallIds) : CallIds[i] = g.schema_id
                 /\ g.errors # <<>>
                 /\ g.errors = ErrorsWithMessage(FailuresOf(g.schema_id), g.message)
        /\ \A i \in 1..Len(CallIds) :
              \A n \in 1..Len(FailuresOf(CallIds[i])) :
                  Cardinality(GroupsWith(CallIds[i], Message(FailuresOf(CallIds[i])[n])))
                      = Occurrences(CallIds[i])

\* One identifier has yielded two groups on the same path, each holding the
\* two failures that carry its message.
C9_Witness ==
    /\ IsComplete
    /\ ret.kind = "ok"
    /\ Len(CallIds) = 1
    /\ Len(ret.groups) = 2
    /\ ret.groups[1].message.path = ret.groups[2].message.path
    /\ Len(ret.groups[1].errors) = 2
    /\ Len(ret.groups[2].errors) = 2

\* The places <<key, position>> of the cross-schema references of a store.
CrossRefs(reg) ==
    UNION {{<<k, i>> : i \in {j \in 1..Len(reg[k].refs) : ~IsLocalRef(reg[k].refs[j])}} :
           k \in DOMAIN reg}

AllResolvable(reg, m) ==
    \A ki \in CrossRefs(reg) : RefFound(reg, m, reg[ki[1]].refs[ki[2]])

\* C10: in a store whose cross-schema references all resolve,
\* update_schema_refs_to("id") followed by update_schema_refs_to("filepath")
\* leaves every reference resolving to the schema the original reference
\* resolved to, with the original fragment.
C10_RoundTrip ==
    (/\ call.op = "update"
     /\ hist.chain = <<"id", "filepath">>
     /\ AllResolvable(hist.origin, mappings))
    => \A ki \in CrossRefs(hist.origin) :
          LET old == hist.origin[ki[1]].refs[ki[2]]
              new == registry[ki[1]].refs[ki[2]]
          IN /\ RefFound(registry, mappings, new)
             /\ RefSchemaId(registry, mappings, new)
                    = RefSchemaId(hist.origin, mappings, old)
             /\ RefFragment(new) = RefFragment(old)

----------------------------------------------------------------------------
(* Reference rewriting: what update_schema_refs_to leaves *)

IsUpdate == call.op = "update"

\* The places <<key, position>> of the walked cross-schema references of a
\* store that the store and the path mapping resolve.
ResolvableRefs(reg, m) ==
    {ki \in CrossRefs(reg) : RefFound(reg, m, reg[ki[1]].refs[ki[2]])}

\* The keys whose document holds a resolvable cross-schema reference inside
\* a sequence nested in a sequence.
ResolvableDeep(reg, m) ==
    {k \in DOMAIN reg : reg[k].deep # <<>> /\ RefFound(reg, m, reg[k].deep[1])}

\* ref is the form-"id" or form-"filepath" spelling of old: the identifier
\* of the schema old refers to, or a path that schema was registered from,
\* followed by old's fragment.
IsFormOf(ref, old, form) ==
    LET sid == RefSchemaId(hist.reg, hist.map, old)
    IN IF form = "id"
       THEN ref = sid \o RefFragment(old)
       ELSE \E j \in 1..Len(hist.map) :
               /\ hist.map[j].id = sid
               /\ ref = hist.map[j].path \o RefFragment(old)

----------------------------------------------------------------------------
(* The auditor's report *)

AuditReturned == call.op = "audit" /\ aud.pc = "done"

\* The registered schema a cross-schema reference names, if any: the one
\* registered from the path its prefix spells, else the one whose
\* identifier is the normalised prefix.
NamedSchemas(reg, m, ref) ==
    LET byPath == {m[j].id : j \in {l \in 1..Len(m) : m[l].path = PathResolve(RefPrefix(ref))}}
    IN IF byPath # {} THEN byPath
       ELSE {CleanSchemaId(RefPrefix(ref))} \cap DOMAIN reg

\* The reference met in document k cannot be resolved against the store:
\* its target schema does not exist, or its pointer leads nowhere in it.
CannotResolve(reg, m, k, ref) ==
    IF IsLocalRef(ref) THEN ~FragmentExists(reg[k], ref)
    ELSE \A sid \in NamedSchemas(reg, m, ref) :
            ~FragmentExists(reg[sid], RefFragment(ref))

Unresolvable(reg, m) ==
    UNION {{[schema_id |-> k, ref |-> AllRefsOf(reg[k])[i]] :
               i \in {j \in 1..Len(AllRefsOf(reg[k])) :
                        CannotResolve(reg, m, k, AllRefsOf(reg[k])[j])}} :
           k \in DOMAIN reg}

Cycle == {DocC.id, DocD.id}

CycleIn(reg) == Cycle \subseteq DOMAIN reg

----------------------------------------------------------------------------
(* Reader threads *)

\* The validator cache as it was when the threads were started.
CacheAtStart == [k \in hist.cached |-> MkValidator(hist.reg, k)]

\* Thread t has returned what its call returns when it runs alone on the
\* registry as it was when the threads were started.
ReturnsAsAlone(t) ==
    LET c == thr[t].call
    IN IF c.op = "validate"
       THEN thr[t].ret = ValidateFrom(hist.reg, CacheAtStart, c.ids, c.data, 1).ret
       ELSE IF c.op = "validate_complete"
       THEN thr[t].ret = CompleteFrom(hist.reg, CacheAtStart, c.ids, c.data, 1, <<>>).ret
       ELSE IF CleanSchemaId(c.ids[1]) \in DOMAIN hist.reg
       THEN thr[t].ret.kind = "ok" /\ thr[t].doc = hist.reg[CleanSchemaId(c.ids[1])]
       ELSE thr[t].ret.kind = "NoSuchResource"

\* C14: while reader threads run validate_json_against_schemas,
\* validate_json_against_schemas_complete and contents in any interleaving,
\* with no registering or rewriting call, the store and the path mapping stay
\* as they were and every call that has returned has returned what it returns
\* when run alone.
C14_ConcurrentReadsSafe ==
    ThreadsRunning =>
        /\ registry = hist.reg
        /\ mappings = hist.map
        /\ \A t \in Threads : thr[t].pc = "done" => ReturnsAsAlone(t)

\* Both threads have returned from a validate call after each of them built
\* the validator of the same identifier, the second store overwriting the
\* first.
C14_Witness ==
    /\ ThreadsRunning
    /\ \A t \in Threads :
          /\ thr[t].pc = "done"
          /\ thr[t].call.op \in {"validate", "validate_complete"}
          /\ thr[t].schema # NoDoc
    /\ thr["t1"].schema = thr["t2"].schema
    /\ thr["t1"].call # thr["t2"].call

----------------------------------------------------------------------------
(* Identifier derivation *)

\* The register_schema call read a file that declares no identifier.
PathWithoutId ==
    /\ call.op = "register_path"
    /\ PathResolve(call.path) \in DOMAIN Files
    /\ ~Files[PathResolve(call.path)].hasId

\* The identifier the call's path normalises to, and the file's document
\* carrying it.
PathId == CleanSchemaId(PathResolve(call.path))

PathDoc == [Files[PathResolve(call.path)] EXCEPT !.hasId = TRUE, !.id = PathId]

\* The store held, under the identifier of the call's path, a document that
\* is not the file's, also once the walker has been applied to both.
PathIdTaken ==
    /\ PathId \in DOMAIN hist.reg
    /\ hist.reg[PathId] # PathDoc
    /\ ResolveSchemaRefs(hist.reg, hist.map, hist.reg[PathId], "True")
            # ResolveSchemaRefs(hist.reg, hist.map, PathDoc, "True")

\* The identifier the call's document declares.
DeclaredId ==
    IF call.op = "register_path" THEN Files[PathResolve(call.path)].id
    ELSE call.doc.id

DeclaresId ==
    /\ IsRegister
    /\ RegisterReachedStore
    /\ IF call.op = "register_path" THEN Files[PathResolve(call.path)].hasId
       ELSE call.doc.hasId

\* C15 as stated: register_schema of an in-memory document without a
\* declared identifier raises ValueError; register_schema of a path whose
\* document declares none succeeds and returns the normalised path; when the
\* identifier is declared, the identifier returned is its normalisation.
C15_PathWithoutIdSucceeds ==
    /\ (call.op = "register_doc" /\ ~call.doc.hasId) => ret.kind = "ValueError"
    /\ PathWithoutId => (ret.kind = "ok" /\ ret.id = PathId)
    /\ (DeclaresId /\ ret.kind = "ok") => ret.id = CleanSchemaId(DeclaredId)

\* C15, amended: register_schema of an in-memory document without a
\* declared identifier raises ValueError; register_schema of a path whose
\* document declares none raises ValueError when the path normalises to the
\* empty string, raises KeyError when the store holds a different document
\* under the normalised path, and otherwise returns the normalised path;
\* when the identifier is declared and the call returns, the identifier
\* returned is its normalisation.
C15_IdentifierDerived ==
    /\ (call.op = "register_doc" /\ ~call.doc.hasId) => ret.kind = "ValueError"
    /\ PathWithoutId =>
          IF PathId = <<>> THEN ret.kind = "ValueError"
          ELSE IF PathIdTaken THEN ret.kind = "KeyError"
          ELSE ret.kind = "ok" /\ ret.id = PathId /\ registry[PathId] = PathDoc
    /\ (DeclaresId /\ ret.kind = "ok") => ret.id = CleanSchemaId(DeclaredId)

\* A file that declares no identifier has been registered under its
\* normalised path.
C15_Witness ==
    /\ PathWithoutId
    /\ call.path = RelX
    /\ ret.kind = "ok"
    /\ ret.id = <<"w", "_", "a">>
    /\ hist.reg = <<>>

----------------------------------------------------------------------------
(* Lookups *)

IsLookup == call.op \in {"contents", "get_schema", "get_schema_id"}

\* The identifier a contents or get_schema call asked for, normalised.
AskedId == CleanSchemaId(call.ids[1])

\* The path mapping's entries for a resolved path.
EntriesOf(m, fp) == {i \in 1..Len(m) : m[i].path = fp}

\* C16: contents and get_schema return the document stored under the
\* normalised identifier and raise KeyError when none is; get_schema_id
\* returns the identifier the path was registered under and None, raising
\* nothing, for a path never registered; none of the three changes the
\* store, the path mapping or the validator cache.
C16_Lookups ==
    /\ (call.op \in {"contents", "get_schema"}) =>
          IF AskedId \in DOMAIN hist.reg
          THEN ret.kind = "ok" /\ got = GotDoc(hist.reg[AskedId])
          ELSE ret.kind = "KeyError"
    /\ (call.op = "get_schema_id") =>
          /\ ret.kind = "ok"
          /\ IF EntriesOf(hist.map, PathResolve(call.path)) = {}
             THEN got = GotNone
             ELSE \E i \in EntriesOf(hist.map, PathResolve(call.path)) :
                      got = GotId(hist.map[i].id)
    /\ IsLookup =>
          /\ registry = hist.reg
          /\ mappings = hist.map
          /\ DOMAIN cache = hist.cached

\* A document has been fetched by a spelling of its identifier that is not
\* the canonical one.
C16_Witness ==
    /\ call.op = "get_schema"
    /\ call.ids = << <<"A">> >>
    /\ ret.kind = "ok"
    /\ got.kind = "doc"
    /\ got.doc = registry[<<"a">>]

----------------------------------------------------------------------------
(* The retry decorator *)

\* The wrapper was built with max_tries = n, n >= 1.
Bounded == rt.pc \notin {"idle", "ValueError"} /\ ~rt.args.max_tries.none
              /\ rt.args.max_tries.val >= 1

Calls == Len(rt.outcomes)
Sleeps == Len(rt.slept)

\* Every call of the function before the k-th raised a caught exception.
CaughtBefore(k) == \A i \in 1..(k - 1) : rt.outcomes[i] = "caught"

\* C17: under retry(max_tries=n), n >= 1, a function that raises a caught
\* exception on every call is called n times, with n-1 sleeps, none after
\* the last call, and the wrapper raises RetryError; a function that first
\* returns at call k <= n is called k times, with k-1 sleeps, and the
\* wrapper returns what it returned.
C17_RetryBound ==
    Bounded =>
        /\ Calls <= rt.args.max_tries.val
        /\ (Calls = rt.args.max_tries.val /\ CaughtBefore(Calls + 1)) =>
              /\ rt.pc = "RetryError"
              /\ Sleeps = rt.args.max_tries.val - 1
        /\ rt.pc = "RetryError" =>
              Calls = rt.args.max_tries.val /\ CaughtBefore(Calls + 1)
        /\ (Calls >= 1 /\ rt.outcomes[Calls] \in Returns /\ CaughtBefore(Calls)) =>
              /\ rt.pc = "returned"
              /\ rt.result = rt.outcomes[Calls]
              /\ Sleeps = Calls - 1

\* The function failed on every one of three calls and the wrapper gave up.
C17_Witness ==
    /\ Bounded
    /\ rt.args.max_tries.val = 3
    /\ rt.pc = "RetryError"
    /\ Calls = 3
    /\ Sleeps = 2

\* One of the arguments of retry(...) is out of its range.
InvalidArgs(a) ==
    \/ ~a.max_tries.none /\ a.max_tries.val < 1
    \/ a.delay < 0
    \/ a.backoff < 1
    \/ a.delay_increment < 0
    \/ ~a.max_delay.none /\ a.max_delay.val < 0

\* C18: retry(...) raises ValueError, before the function is called, when
\* max_tries is an integer below 1, delay is negative, backoff is below 1,
\* delay_increment is negative or max_delay is negative.
C18_InvalidArgumentsRejected ==
    (rt.pc # "idle" /\ InvalidArgs(rt.args)) =>
        (rt.pc = "ValueError" /\ rt.outcomes = <<>>)

----------------------------------------------------------------------------
(* Reference rewriting: what update_schema_refs_to does not touch *)

\* No registered path and no registered identifier answers to the prefix.
NamesNothing(reg, m, ref) == NamedSchemas(reg, m, ref) = {}

\* The schema the reference names was never registered from a path.
NamesPathless(reg, m, ref) ==
    /\ NamedSchemas(reg, m, ref) # {}
    /\ \A sid \in NamedSchemas(reg, m, ref) : \A j \in 1..Len(m) : m[j].id # sid

\* The references update_schema_refs_to(form) has to leave as they are.
MustStay(reg, m, ref, form) ==
    \/ IsLocalRef(ref)
    \/ NamesNothing(reg, m, ref)
    \/ form = "filepath" /\ NamesPathless(reg, m, ref)

\* C19: update_schema_refs_to leaves unchanged every local reference, every
\* reference whose prefix is neither a registered path nor, normalised, a
\* registered identifier, every reference to a schema without a source path
\* when rewriting to path form, everything in a document that is not a
\* reference, the set of registered identifiers and the path mapping.
C19_RewriteFrame ==
    IsUpdate =>
        /\ DOMAIN registry = DOMAIN hist.reg
        /\ mappings = hist.map
        /\ \A k \in DOMAIN hist.reg :
              /\ registry[k].hasId = hist.reg[k].hasId
              /\ registry[k].id = hist.reg[k].id
              /\ registry[k].ty = hist.reg[k].ty
              /\ registry[k].enum = hist.reg[k].enum
              /\ Len(registry[k].refs) = Len(hist.reg[k].refs)
              /\ Len(registry[k].deep) = Len(hist.reg[k].deep)
              /\ \A i \in 1..Len(hist.reg[k].refs) :
                    MustStay(hist.reg, hist.map, hist.reg[k].refs[i], call.form)
                        => registry[k].refs[i] = hist.reg[k].refs[i]
              /\ \A i \in 1..Len(hist.reg[k].deep) :
                    MustStay(hist.reg, hist.map, hist.reg[k].deep[i], call.form)
                        => registry[k].deep[i] = hist.reg[k].deep[i]

\* update_schema_refs_to("filepath") has run on a store that holds a local
\* reference, a reference that names nothing, and a non-canonical reference
\* to a schema without a source path, and has rewritten another reference.
C19_Witness ==
    /\ IsUpdate
    /\ call.form = "filepath"
    /\ \E k \in DOMAIN hist.reg : \E i \in 1..Len(hist.reg[k].refs) :
          IsLocalRef(hist.reg[k].refs[i])
    /\ \E k \in DOMAIN hist.reg : \E i \in 1..Len(hist.reg[k].refs) :
          /\ ~IsLocalRef(hist.reg[k].refs[i])
          /\ NamesNothing(hist.reg, hist.map, hist.reg[k].refs[i])
    /\ \E k \in DOMAIN hist.reg : \E i \in 1..Len(hist.reg[k].refs) :
          /\ NamesPathless(hist.reg, hist.map, hist.reg[k].refs[i])
          /\ hist.reg[k].refs[i] # CleanSchemaId(RefPrefix(hist.reg[k].refs[i]))
                                       \o RefFragment(hist.reg[k].refs[i])
    /\ \E k \in DOMAIN hist.reg : registry[k] # hist.reg[k]

----------------------------------------------------------------------------
(* References at insertion *)

\* The register_schema call returned an identifier the store did not hold.
RegisteredNew == IsRegister /\ ret.kind = "ok" /\ ret.id \notin DOMAIN hist.reg

\* ref is the identifier of a schema it names, followed by its fragment.
InIdentifierForm(reg, m, ref) ==
    \E sid \in NamedSchemas(reg, m, ref) : ref = sid \o RefFragment(ref)

\* C20: after a register_schema call that returned a new identifier, every
\* cross-schema reference of the stored document that names a registered
\* schema is that schema's identifier followed by the fragment.
C20_RefsNormalizedAtInsertion ==
    RegisteredNew =>
        \A i \in 1..Len(AllRefsOf(registry[ret.id])) :
            LET ref == AllRefsOf(registry[ret.id])[i]
            IN (~IsLocalRef(ref) /\ NamedSchemas(registry, mappings, ref) # {})
                   => InIdentifierForm(registry, mappings, ref)

----------------------------------------------------------------------------
(* Validation by a spelling of an identifier *)

\* A validate entry point was called with the one identifier s, and the
\* store holds the normalisation of s.
ByOneSpelling ==
    /\ IsValidate \/ IsComplete
    /\ call.fps = <<>>
    /\ Len(call.ids) = 1
    /\ CleanSchemaId(call.ids[1]) \in DOMAIN hist.reg

\* What the same call returns or raises when handed the normalised identifier.
ByCanonical ==
    IF IsValidate
    THEN ValidateFrom(hist.reg, CacheAtStart, <<CleanSchemaId(call.ids[1])>>,
                      call.data, 1).ret
    ELSE LET r == CompleteFrom(hist.reg, CacheAtStart, <<CleanSchemaId(call.ids[1])>>,
                               call.data, 1, <<>>).ret
         IN [r EXCEPT !.groups =
                [j \in 1..Len(r.groups) |->
                    [r.groups[j] EXCEPT !.schema_id = call.ids[1]]]]

\* C21: a validate entry point called with [s], where normalize(s) is
\* registered, returns or raises what it does with [normalize(s)], and every
\* key of the validator cache is a canonical identifier.
C21_ValidationNormalizes ==
    /\ ByOneSpelling => ret = ByCanonical
    /\ \A k \in DOMAIN cache : k = CleanSchemaId(k)

----------------------------------------------------------------------------
(* Validation by a source path never registered *)

\* The positions of call.fps whose path the mapping did not hold.
UnknownPaths == {i \in 1..Len(call.fps) : ~SchemaRegistered(hist.map, call.fps[i])}

\* C22: a validate entry point asked to validate against a source path
\* that was never registered raises KeyError, and does not return as if the
\* data complied.
C22_UnknownPathRaisesNotFound ==
    ((IsValidate \/ IsComplete) /\ UnknownPaths # {}) => ret.kind = "KeyError"

----------------------------------------------------------------------------
(* Registration order *)

IsDirectory == call.op = "register_directory"

\* The files handed to register_schema, and the identifier each is stored under.
DirFiles == {call.fps[i] : i \in 1..Len(call.fps)}

FileId(fp) == CleanSchemaId(IF Files[fp].hasId THEN Files[fp].id ELSE fp)

\* The files' identifiers are pairwise distinct and the store held none of them.
DistinctNew ==
    /\ \A f, g \in DirFiles : FileId(f) = FileId(g) => f = g
    /\ \A f \in DirFiles : FileId(f) \notin DOMAIN hist.reg

\* The path mapping as a set of <<path, identifier>> pairs.
Pairs(m) == {<<m[i].path, m[i].id>> : i \in 1..Len(m)}

\* C23: registering a set of schema files with pairwise distinct
\* identifiers succeeds in whatever order the files come, and leaves the
\* store and the path mapping the set alone determines: each file's document
\* under its identifier, each path mapped to it, also when a file comes
\* before the file it refers to.
C23_OrderIndependent ==
    (IsDirectory /\ DistinctNew) =>
        /\ ret.kind = "ok"
        /\ DOMAIN registry = DOMAIN hist.reg \cup {FileId(f) : f \in DirFiles}
        /\ \A k \in DOMAIN hist.reg : registry[k] = hist.reg[k]
        /\ \A f \in DirFiles :
              registry[FileId(f)] = [Files[f] EXCEPT !.hasId = TRUE, !.id = FileId(f)]
        /\ Pairs(mappings) = Pairs(hist.map) \cup {<<f, FileId(f)>> : f \in DirFiles}

\* A directory has been registered with the file that holds a path-form
\* reference coming before the file it refers to.
C23_Witness ==
    /\ IsDirectory
    /\ DistinctNew
    /\ ret.kind = "ok"
    /\ \E i, j \in 1..Len(call.fps) :
          i < j /\ call.fps[i] = PathP /\ call.fps[j] = PathA

----------------------------------------------------------------------------
(* The empty identifier *)

\* C24: no document is ever stored under the empty identifier: every key
\* of the store is a non-empty string.
C24_NoEmptyIdentifier == <<>> \notin DOMAIN registry

----------------------------------------------------------------------------
(* The retry delays *)

\* min(d, max_delay), without the min when max_delay is None.
Capped(d, max_delay) == IF max_delay.none THEN d ELSE Min(d, max_delay.val)

\* C25: the first sleep lasts min(delay, max_delay) and each later one
\* min(previous * backoff + delay_increment, max_delay), without the min
\* when max_delay is None; successive sleeps never get shorter and, when
\* max_delay is given, none is longer than max_delay.
C25_DelaySchedule ==
    (rt.pc \notin {"idle", "ValueError"}) =>
        /\ Sleeps >= 1 => rt.slept[1] = Capped(rt.args.delay, rt.args.max_delay)
        /\ \A i \in 1..(Sleeps - 1) :
              /\ rt.slept[i + 1] =
                     Capped(rt.slept[i] * rt.args.backoff + rt.args.delay_increment,
                            rt.args.max_delay)
              /\ rt.slept[i + 1] >= rt.slept[i]
        /\ ~rt.args.max_delay.none =>
              \A i \in 1..Sleeps : rt.slept[i] <= rt.args.max_delay.val

----------------------------------------------------------------------------
(* Well-formedness of the registry *)

\* The identifiers the registry holds: the keys of the store and the values
\* of the path mapping.
HeldIds == DOMAIN registry \cup {mappings[i].id : i \in 1..Len(mappings)}

\* C26: every identifier that is a key of the store or a value of the path
\* mapping equals its own normalisation, is a key of the store, and is the
\* normalisation of the identifier declared by the document stored under it.
C26_WellFormed ==
    \A k \in HeldIds :
        /\ k = CleanSchemaId(k)
        /\ k \in DOMAIN registry
        /\ registry[k].hasId
        /\ k = CleanSchemaId(registry[k].id)

\* After a rewrite that changed a document, the store holds a document whose
\* declared identifier is not canonical and the mapping holds a path.
C26_Witness ==
    /\ IsUpdate
    /\ registry # hist.reg
    /\ mappings # <<>>
    /\ \E k \in DOMAIN registry : registry[k].id # k

----------------------------------------------------------------------------
(* A registration that raises *)

RegisterFailed == IsRegister /\ ret.kind \in {"KeyError", "ValueError"}

\* C27: when register_schema raises KeyError or ValueError, the store, the
\* path mapping and the validator cache are as they were before the call:
\* the path of a conflicting file is not in the mapping unless it was, and
\* the document first registered is still the one stored.
C27_FailureChangesNothing ==
    RegisterFailed =>
        /\ registry = hist.reg
        /\ mappings = hist.map
        /\ cache = CacheAtStart

\* A file that declares the identifier of a registered file has been
\* refused while the validator cache held a validator, and its path is not
\* in the mapping.
C27_Witness ==
    /\ RegisterFailed
    /\ hist.cached # {}
    /\ call.op = "register_path"
    /\ ret.kind = "KeyError"
    /\ ~MapHas(mappings, PathResolve(call.path))

----------------------------------------------------------------------------
(* The two validate entry points *)

\* Every identifier of the call is a key of the store.
AllRegistered == \A i \in 1..Len(CallIds) : CallIds[i] \in DOMAIN hist.reg

\* What validate_json_against_schemas_complete gives for the arguments of
\* the call on the registry the call found.
CompleteOfCall == CompleteFrom(hist.reg, CacheAtStart, CallIds, call.data, 1, <<>>).ret

\* C28: for a list of registered identifiers, validate_json_against_schemas
\* raises a validation failure exactly when
\* validate_json_against_schemas_complete returns a non-empty list, and the
\* failure raised belongs to the identifier of the first group of that list.
C28_EntryPointsAgree ==
    (IsValidate /\ AllRegistered) =>
        /\ ret.kind = "ValidationError"
              <=> (CompleteOfCall.kind = "ok" /\ CompleteOfCall.groups # <<>>)
        /\ ret.kind = "ValidationError" =>
              /\ CompleteOfCall.groups # <<>>
              /\ CompleteOfCall.groups[1].schema_id = CallIds[ret.at]

----------------------------------------------------------------------------
(* A writer beside a reader *)

\* Both calls have returned.
RaceDone == Racing /\ thr["t1"].pc = "done" /\ thr["w"].pc = "done"

\* The validator cache holds a validator bound to a store that is not the
\* current one, or built from a document that is not the stored one.
StaleValidator == \E k \in DOMAIN cache : cache[k] # MkValidator(registry, k)

\* C29 as stated: when register_schema of a new identifier or
\* update_schema_refs_to runs in one thread while
\* validate_json_against_schemas runs in another, with no lock, then once
\* both have returned the cache holds no validator bound to an older store.
C29_NoStaleValidator == RaceDone => ~StaleValidator

\* C29, amended: the same holds when the caller holds a lock around each of
\* the two calls, so that one runs wholly before the other.
C29_NoStaleValidatorUnderLock == (RaceDone /\ thr["w"].locked) => ~StaleValidator

\* Under the lock the validate call has run first and filled the cache,
\* and the registration of a new document has then emptied it.
C29_Witness ==
    /\ RaceDone
    /\ thr["w"].locked
    /\ thr["w"].call.op = "register_doc"
    /\ thr["t1"].ret.kind = "ok"
    /\ <<"q">> \in DOMAIN registry
    /\ <<"q">> \notin DOMAIN hist.reg
    /\ thr["t1"].v.registry = hist.reg
    /\ cache = <<>>

----------------------------------------------------------------------------
(* C30 *)

\* The last two calls were update_schema_refs_to with the same form.
RewrittenTwice ==
    /\ call.op = "update"
    /\ Len(hist.chain) = 2
    /\ hist.chain[1] = hist.chain[2]

\* C30: reference rewriting is idempotent: for either form and any
\* reachable store, after update_schema_refs_to(form) is called twice in a
\* row every stored document equals what the first call left.
C30_RewriteIdempotent ==
    RewrittenTwice => registry = hist.reg

====
